---- MODULE Spec2Model ----
(***************************************************************************)
(* Vote-integrity core of the Provote polling backend: idempotent vote     *)
(* casting, the fingerprint block registry, the fingerprint activity       *)
(* cache and the suspicion engine.                                          *)
(*                                                                         *)
(* Time is counted in units of 1/UnitsPerHour hour.  Strings produced by   *)
(* f-strings are sequences of character codes: the digits 0..9 stand for   *)
(* themselves and Colon for ':'.  A SHA-256 hex digest is represented by   *)
(* its length, its being hexadecimal and its preimage (the hash is taken   *)
(* to be injective).                                                       *)
(***************************************************************************)
EXTENDS Integers, Sequences, FiniteSets, TLC

VARIABLES
    votes,        \* rows of votes.Vote
    nextVoteId,   \* next primary key of votes.Vote
    blocks,       \* rows of analytics.FingerprintBlock, by fingerprint
    fpCache,      \* cache entries "fp:activity:<fingerprint>:<poll>"
    idemCache,    \* cache entries "idempotency:<key>"
    pollTotal,    \* Poll.cached_total_votes, by poll
    optionCount,  \* PollOption.cached_vote_count, by option
    req,          \* the cast requests in flight, by worker
    now,          \* the clock
    started,      \* number of cast requests received so far
    adminOps,     \* number of operations performed by administrators so far
    lastOp,       \* the operation performed by the last step, with its result
    polls,        \* rows of polls.Poll, by poll
    attempts,     \* rows of votes.VoteAttempt, in order of insertion
    alerts,       \* rows of analytics.FraudAlert
    task,         \* the pattern analysis task in progress, with its locals
    recorded,     \* the activity recorded since the last expiry, by cache key
    runs,         \* the results of the pattern analysis tasks run so far
    jobs,         \* the work dispatched by accepted casts and not yet run
    unblocking    \* the unblock_selected actions of administrators in progress

vars == <<votes, nextVoteId, blocks, fpCache, idemCache, pollTotal,
          optionCount, req, now, started, adminOps, lastOp, polls, attempts,
          alerts, task, recorded, runs, jobs, unblocking>>

(***************************************************************************)
(* Bounds of the model.                                                    *)
(***************************************************************************)
NumUsers == 2
NumWorkers == 2
MaxCasts == 2
MaxHistory == 2
MaxCacheCount == 2
MaxAdminOps == 2
MaxClones == 1
UnitsPerHour == 30

(***************************************************************************)
(* Program constants.                                                      *)
(***************************************************************************)
DIGEST_LENGTH == 64
DEFAULT_DIFFERENT_USERS == 2
DEFAULT_DIFFERENT_IPS == 2
VOTES_PER_HOUR_LIMIT == 10
MULTIPLE_USERS_SCORE == 40
MULTIPLE_IPS_SCORE == 30
HIGH_FREQUENCY_SCORE == 20
MAX_RISK_SCORE == 100
TIME_WINDOW_HOURS == 24

NoUser == 0
NoIp == 0
NoFingerprint == 0
NoVote == 0

Users == 1..NumUsers
Workers == 1..NumWorkers
Fingerprints == {1, 2}
IpAddresses == {1, 2}

Colon == 10

Min(a, b) == IF a < b THEN a ELSE b

(***************************************************************************)
(* core/utils/idempotency.py                                               *)
(***************************************************************************)
RECURSIVE Str(_)
Str(n) == IF n < 10 THEN <<n>> ELSE Str(n \div 10) \o <<n % 10>>

NoKey == [len |-> 0, hex |-> FALSE, text |-> <<>>]

Sha256Hex(data) == [len |-> DIGEST_LENGTH, hex |-> TRUE, text |-> data]

\* the key of the ids joined without a separator
generate_idempotency_key_unseparated(user_id, poll_id, choice_id) ==
    Sha256Hex(Str(user_id) \o Str(poll_id) \o Str(choice_id))

generate_idempotency_key(user_id, poll_id, choice_id) ==
    Sha256Hex(Str(user_id) \o <<Colon>> \o Str(poll_id) \o <<Colon>> \o Str(choice_id))

validate_idempotency_key(idempotency_key) ==
    IF idempotency_key.len = 0 THEN FALSE
    ELSE IF idempotency_key.len # DIGEST_LENGTH THEN FALSE
    ELSE idempotency_key.hex

check_idempotency(idempotency_key) ==
    IF ~validate_idempotency_key(idempotency_key) THEN NoVote
    ELSE IF idempotency_key \in DOMAIN idemCache THEN idemCache[idempotency_key]
    ELSE NoVote

check_duplicate_vote_by_idempotency(idempotency_key, queryOk) ==
    IF ~validate_idempotency_key(idempotency_key) THEN NoVote
    ELSE IF ~queryOk THEN NoVote
    ELSE LET existing == {v \in votes : v.idempotency_key = idempotency_key}
         IN IF existing # {} THEN (CHOOSE v \in existing : TRUE).id ELSE NoVote

store_idempotency_result(idempotency_key, result) ==
    IF ~validate_idempotency_key(idempotency_key) THEN idemCache
    ELSE [k \in DOMAIN idemCache \cup {idempotency_key} |->
            IF k = idempotency_key THEN result ELSE idemCache[k]]

(***************************************************************************)
(* Rows and cache entries.                                                 *)
(***************************************************************************)
Polls == {1}
OptionsOf(poll) == IF poll = 1 THEN {1, 2} ELSE {}
Options == UNION {OptionsOf(p) : p \in Polls}

NoTime == 0 - 1

\* a poll id that no row of polls.Poll carries, and an option that exists but
\* belongs to a poll other than the ones of Polls
MissingPoll == 99999
ForeignOption == 3

\* a row of polls.Poll as the factories and the migrations create it
OpenPoll == [is_draft |-> FALSE, is_active |-> TRUE, ends_at |-> NoTime,
             allow_vote_retraction |-> FALSE]

DraftPoll == [OpenPoll EXCEPT !.is_draft = TRUE]
InactivePoll == [OpenPoll EXCEPT !.is_active = FALSE]
ExpiredPoll == [OpenPoll EXCEPT !.ends_at = 0]
RetractablePoll == [OpenPoll EXCEPT !.allow_vote_retraction = TRUE]

\* Poll.is_open: the poll is no draft, it is active and its end time, if
\* any, has not passed
is_open(poll, t) ==
    /\ ~poll.is_draft
    /\ poll.is_active
    /\ poll.ends_at = NoTime \/ t < poll.ends_at

\* a row of votes.VoteAttempt
VoteAttempt(user, poll, option, key, fp, ip, success, error_message) ==
    [user |-> user, poll |-> poll, option |-> option, idempotency_key |-> key,
     fingerprint |-> fp, ip_address |-> ip, success |-> success,
     error_message |-> error_message]

Vote(id, user, poll, option, key, fp, ip, t, risk, reasons) ==
    [id |-> id, user |-> user, poll |-> poll, option |-> option,
     idempotency_key |-> key, fingerprint |-> fp, ip_address |-> ip,
     created_at |-> t, is_valid |-> TRUE, risk_score |-> risk,
     fraud_reasons |-> reasons]

\* unique_together removed and no constraint put in its place
unique_user_poll_removed(rows) == TRUE

\* the storage constraints of votes.Vote
unique_user_poll(rows) ==
    \A a, b \in rows :
        (a.user # NoUser /\ a.user = b.user /\ a.poll = b.poll) => a.id = b.id

unique_idempotency_key(rows) ==
    \A a, b \in rows : a.idempotency_key = b.idempotency_key => a.id = b.id

IS_ACTIVE_DEFAULT_false == FALSE

IS_ACTIVE_DEFAULT == TRUE

\* no unblock_selected action in progress
NoUnblocking == <<>>

\* poll_id=None of the pattern analysis tasks
NoPoll == 0

NoBlock ==
    [present |-> FALSE, is_active |-> FALSE, reason |-> "", blocked_by |-> NoUser,
     unblocked_at |-> NoTime, unblocked_by |-> NoUser, first_seen_user |-> NoUser,
     total_users |-> 0, total_votes |-> 0]

NoEntry == [present |-> FALSE, count |-> 0, users |-> {}, ips |-> {},
            user_count |-> 0, ip_count |-> 0]

NoRecorded == [count |-> 0, users |-> {}, ips |-> {}]

(***************************************************************************)
(* The scoring rules of the suspicion engine, with the thresholds and the   *)
(* scores of apps/votes/tasks.py, analyze_fingerprint_patterns.            *)
(***************************************************************************)
RECURSIVE SetMax(_)
SetMax(S) == LET x == CHOOSE y \in S : TRUE
             IN IF S = {x} THEN x
                ELSE LET m == SetMax(S \ {x}) IN IF x > m THEN x ELSE m

RECURSIVE SetMin(_)
SetMin(S) == LET x == CHOOSE y \in S : TRUE
             IN IF S = {x} THEN x
                ELSE LET m == SetMin(S \ {x}) IN IF x < m THEN x ELSE m

\* the query without the filter on the poll
historical_votes_any_poll(fingerprint, poll_id, cutoff) ==
    {v \in votes : /\ v.fingerprint = fingerprint
                   /\ v.created_at >= cutoff}

historical_votes(fingerprint, poll_id, cutoff) ==
    {v \in votes : /\ v.fingerprint = fingerprint
                   /\ v.poll = poll_id
                   /\ v.created_at >= cutoff}

distinct_users(rows) == {v.user : v \in rows} \ {NoUser}

distinct_ips(rows) == {v.ip_address : v \in rows} \ {NoIp}

\* the time between the first and the last of the votes, in time units
time_span(rows) ==
    IF rows = {} THEN 0
    ELSE SetMax({v.created_at : v \in rows}) - SetMin({v.created_at : v \in rows})

\* the rule with "at least" in place of "more than"
high_frequency_at_least(vote_count, span) ==
    /\ span > 0
    /\ vote_count * UnitsPerHour >= VOTES_PER_HOUR_LIMIT * span

\* time_span_hours > 0 and vote_count / time_span_hours > 10
high_frequency(vote_count, span) ==
    /\ span > 0
    /\ vote_count * UnitsPerHour > VOTES_PER_HOUR_LIMIT * span

\* the address rule with "more than" in place of "at least"
risk_factors_strict_ips(n_users, n_ips, vote_count, span) ==
    (IF n_users >= DEFAULT_DIFFERENT_USERS THEN <<"multiple_users">> ELSE <<>>)
    \o (IF n_ips > DEFAULT_DIFFERENT_IPS THEN <<"multiple_ips">> ELSE <<>>)
    \o (IF high_frequency(vote_count, span) THEN <<"high_frequency">> ELSE <<>>)

risk_factors(n_users, n_ips, vote_count, span) ==
    (IF n_users >= DEFAULT_DIFFERENT_USERS THEN <<"multiple_users">> ELSE <<>>)
    \o (IF n_ips >= DEFAULT_DIFFERENT_IPS THEN <<"multiple_ips">> ELSE <<>>)
    \o (IF high_frequency(vote_count, span) THEN <<"high_frequency">> ELSE <<>>)

\* the address rule scored like the user rule
FactorScore_same_score(factor) ==
    CASE factor = "multiple_users" -> MULTIPLE_USERS_SCORE
      [] factor = "multiple_ips" -> MULTIPLE_USERS_SCORE
      [] factor = "high_frequency" -> HIGH_FREQUENCY_SCORE

FactorScore(factor) ==
    CASE factor = "multiple_users" -> MULTIPLE_USERS_SCORE
      [] factor = "multiple_ips" -> MULTIPLE_IPS_SCORE
      [] factor = "high_frequency" -> HIGH_FREQUENCY_SCORE

RECURSIVE SumScores(_)
SumScores(factors) ==
    IF factors = <<>> THEN 0
    ELSE FactorScore(Head(factors)) + SumScores(Tail(factors))

risk_score(factors) == Min(SumScores(factors), MAX_RISK_SCORE)

(***************************************************************************)
(* FingerprintBlock registry.                                              *)
(***************************************************************************)
is_blocked(fingerprint) ==
    /\ fingerprint \in DOMAIN blocks
    /\ blocks[fingerprint].present
    /\ blocks[fingerprint].is_active

\* a block that only inserts: for a fingerprint that has a row already the
\* unique constraint refuses the insert and the row stays as it is
block_insert_only(fingerprint, reason, first_seen_user, total_users, total_votes, blocked_by) ==
    IF blocks[fingerprint].present THEN blocks
    ELSE [blocks EXCEPT ![fingerprint] =
            [present |-> TRUE, is_active |-> IS_ACTIVE_DEFAULT, reason |-> reason,
             blocked_by |-> blocked_by, unblocked_at |-> NoTime,
             unblocked_by |-> NoUser, first_seen_user |-> first_seen_user,
             total_users |-> total_users, total_votes |-> total_votes]]

\* FingerprintBlock.objects.create / reactivation of the fingerprint's row
block(fingerprint, reason, first_seen_user, total_users, total_votes, blocked_by) ==
    [blocks EXCEPT ![fingerprint] =
        [present |-> TRUE, is_active |-> IS_ACTIVE_DEFAULT, reason |-> reason,
         blocked_by |-> blocked_by, unblocked_at |-> NoTime,
         unblocked_by |-> NoUser, first_seen_user |-> first_seen_user,
         total_users |-> total_users, total_votes |-> total_votes]]

\* FingerprintBlock.unblock(user) on the row of the fingerprint
unblock(registry, fingerprint, by_user) ==
    [registry EXCEPT ![fingerprint] =
        [@ EXCEPT !.is_active = FALSE, !.unblocked_at = now,
                  !.unblocked_by = by_user]]

(***************************************************************************)
(* Fingerprint activity cache.                                             *)
(***************************************************************************)
CacheKeys == Fingerprints \X Polls

get_fingerprint_cache_key(fingerprint, poll_id) == <<fingerprint, poll_id>>

\* a cache read: an unavailable cache yields no entry
read_fingerprint_cache(fingerprint, poll_id, cacheOk) ==
    LET key == get_fingerprint_cache_key(fingerprint, poll_id)
    IN IF cacheOk /\ key \in DOMAIN fpCache THEN fpCache[key] ELSE NoEntry

\* an update that keeps only the user and the address of the last call
update_fingerprint_cache_overwriting(fingerprint, poll_id, user_id, ip_address) ==
    LET key == get_fingerprint_cache_key(fingerprint, poll_id)
        old == fpCache[key]
        users == {user_id} \ {NoUser}
        ips == {ip_address} \ {NoIp}
    IN [fpCache EXCEPT ![key] =
            [present |-> TRUE, count |-> old.count + 1, users |-> users,
             ips |-> ips, user_count |-> Cardinality(users),
             ip_count |-> Cardinality(ips)]]

\* the entry that a call writes, from the entry that it read
cached_data_after(old, user_id, ip_address) ==
    LET users == old.users \cup ({user_id} \ {NoUser})
        ips == old.ips \cup ({ip_address} \ {NoIp})
    IN [present |-> TRUE, count |-> old.count + 1, users |-> users,
        ips |-> ips, user_count |-> Cardinality(users),
        ip_count |-> Cardinality(ips)]

\* a call that reads and writes with no other writer in between
update_fingerprint_cache(fingerprint, poll_id, user_id, ip_address) ==
    LET key == get_fingerprint_cache_key(fingerprint, poll_id)
    IN [fpCache EXCEPT ![key] = cached_data_after(fpCache[key], user_id, ip_address)]

\* what record() was called with since the entry was last dropped
note_record(fingerprint, poll_id, user_id, ip_address) ==
    LET key == get_fingerprint_cache_key(fingerprint, poll_id)
    IN [recorded EXCEPT ![key] =
            [count |-> @.count + 1,
             users |-> @.users \cup ({user_id} \ {NoUser}),
             ips |-> @.ips \cup ({ip_address} \ {NoIp})]]

(***************************************************************************)
(* Suspicion engine.                                                       *)
(***************************************************************************)
TIME_WINDOW == TIME_WINDOW_HOURS * UnitsPerHour

NotSuspicious ==
    [suspicious |-> FALSE, block_vote |-> FALSE, risk_score |-> 0,
     reasons |-> <<>>, cache_hit |-> FALSE]

PermanentlyBlocked ==
    [suspicious |-> TRUE, block_vote |-> TRUE, risk_score |-> MAX_RISK_SCORE,
     reasons |-> <<"permanently blocked">>, cache_hit |-> FALSE]

ReasonOf(factor) ==
    CASE factor = "multiple_users" -> "different users"
      [] factor = "multiple_ips" -> "different ip"
      [] factor = "high_frequency" -> "rapid votes"

recent_votes(fingerprint, poll_id) ==
    historical_votes(fingerprint, poll_id, now - TIME_WINDOW)

observed_users(fingerprint, poll_id, user_id) ==
    distinct_users(recent_votes(fingerprint, poll_id)) \cup ({user_id} \ {NoUser})

observed_ips(fingerprint, poll_id, ip_address) ==
    distinct_ips(recent_votes(fingerprint, poll_id)) \cup ({ip_address} \ {NoIp})

observed_factors(fingerprint, poll_id, user_id, ip_address) ==
    LET recent == recent_votes(fingerprint, poll_id)
    IN risk_factors(Cardinality(observed_users(fingerprint, poll_id, user_id)),
                    Cardinality(observed_ips(fingerprint, poll_id, ip_address)),
                    Cardinality(recent), time_span(recent))

forces_block(factors) ==
    \E i \in 1..Len(factors) : factors[i] \in {"multiple_users", "multiple_ips"}

\* the registry consulted only when the activity cache has no entry
check_fingerprint_suspicious_cache_first(fingerprint, poll_id, user_id, ip_address, cacheOk) ==
    IF fingerprint = NoFingerprint THEN NotSuspicious
    ELSE LET cached == read_fingerprint_cache(fingerprint, poll_id, cacheOk)
             factors == observed_factors(fingerprint, poll_id, user_id, ip_address)
         IN IF ~cached.present /\ is_blocked(fingerprint) THEN PermanentlyBlocked
            ELSE [suspicious |-> factors # <<>>,
                  block_vote |-> forces_block(factors),
                  risk_score |-> risk_score(factors),
                  reasons |-> [i \in 1..Len(factors) |-> ReasonOf(factors[i])],
                  cache_hit |-> cached.present]

check_fingerprint_suspicious(fingerprint, poll_id, user_id, ip_address, cacheOk) ==
    IF fingerprint = NoFingerprint THEN NotSuspicious
    ELSE IF is_blocked(fingerprint) THEN PermanentlyBlocked
    ELSE LET cached == read_fingerprint_cache(fingerprint, poll_id, cacheOk)
             factors == observed_factors(fingerprint, poll_id, user_id, ip_address)
         IN [suspicious |-> factors # <<>>,
             block_vote |-> forces_block(factors),
             risk_score |-> risk_score(factors),
             reasons |-> [i \in 1..Len(factors) |-> ReasonOf(factors[i])],
             cache_hit |-> cached.present]

\* the registry after an evaluation: a blocking verdict on a fingerprint with no
\* active block writes the block row
auto_block(fingerprint, poll_id, user_id, ip_address, verdict) ==
    IF verdict.block_vote /\ ~is_blocked(fingerprint)
    THEN LET recent == recent_votes(fingerprint, poll_id)
             first == IF recent = {} THEN user_id
                      ELSE (CHOOSE v \in recent :
                                \A w \in recent : v.id <= w.id).user
         IN block(fingerprint, "suspicious activity", first,
                  Cardinality(observed_users(fingerprint, poll_id, user_id)),
                  Cardinality(recent), NoUser)
    ELSE blocks

check_fingerprint_ip_combination(fingerprint, ip_address, poll_id) ==
    IF fingerprint = NoFingerprint \/ ip_address = NoIp THEN NotSuspicious
    ELSE LET ips == observed_ips(fingerprint, poll_id, ip_address)
         IN IF Cardinality(ips) >= DEFAULT_DIFFERENT_IPS
            THEN [suspicious |-> TRUE, block_vote |-> TRUE,
                  risk_score |-> MULTIPLE_IPS_SCORE,
                  reasons |-> <<"different ip">>, cache_hit |-> FALSE]
            ELSE NotSuspicious

(***************************************************************************)
(* State shared by the specifications.                                     *)
(***************************************************************************)
Idle == [pc |-> "idle", user |-> NoUser, poll |-> 0, option |-> 0,
         supplied |-> NoKey, key |-> NoKey, fingerprint |-> NoFingerprint,
         ip |-> NoIp, outcome |-> "", vote |-> NoVote, is_new |-> FALSE,
         status |-> 0, at |-> "", key_row |-> NoVote, user_row |-> NoVote,
         fault |-> FALSE, cache_fault |-> FALSE, verdict |-> NotSuspicious,
         total_read |-> 0, count_read |-> 0, error_code |-> "",
         cached_data |-> NoEntry]

\* no pattern analysis task running; the fields are the locals of a run
IdleTask ==
    [pc |-> "idle", name |-> "", poll |-> NoPoll, at |-> NoTime, history |-> {},
     poll_count |-> 0, todo |-> {}, cur |-> NoPoll, found |-> {}, created |-> 0,
     detected |-> {}, total_patterns |-> 0, total_alerts |-> 0,
     highest_risk |-> 0, flagged_count |-> 0, visited |-> <<>>, failed |-> {}]

InReasons(x, seq) == \E i \in 1..Len(seq) : seq[i] = x

NoOp == [op |-> "init", fingerprint |-> NoFingerprint, verdict |-> NotSuspicious]

Op(name, fingerprint, verdict) ==
    [op |-> name, fingerprint |-> fingerprint, verdict |-> verdict]

CountOf(rows, option) == Cardinality({v \in rows : v.option = option})

InitWith(rows, t) ==
    /\ votes = rows
    /\ nextVoteId = Cardinality(rows) + 1
    /\ blocks = [f \in Fingerprints |-> NoBlock]
    /\ fpCache = [k \in CacheKeys |-> NoEntry]
    /\ idemCache = <<>>
    /\ pollTotal = [p \in Polls |-> Cardinality({v \in rows : v.poll = p})]
    /\ optionCount = [o \in Options |-> CountOf(rows, o)]
    /\ req = [w \in Workers |-> Idle]
    /\ now = t
    /\ started = 0
    /\ adminOps = 0
    /\ lastOp = NoOp
    /\ attempts = <<>>
    /\ alerts = {}
    /\ task = IdleTask
    /\ recorded = [k \in CacheKeys |-> NoRecorded]
    /\ runs = <<>>
    /\ jobs = {}
    /\ unblocking = NoUnblocking

(***************************************************************************)
(* The suspicion engine on a stored vote history.                          *)
(***************************************************************************)
HistoryEnd == 6

\* the times of the stored votes: two that are one unit apart and one at the end
HistoryTimes == {0, 1, HistoryEnd}
MaxTicks == 1
MaxNow == HistoryEnd + MaxTicks * TIME_WINDOW
Admins == {1}

\* a stored anonymous vote carries a key of its own
RowKey(i, user, poll, option) ==
    IF user = NoUser THEN Sha256Hex(<<Colon, i>>)
    ELSE generate_idempotency_key(user, poll, option)

\* the candidates for the i-th stored vote; the first one fixes the names of
\* its fingerprint and address and the origin of time
HistoryRow(i) ==
    {v \in {Vote(i, u, p, 1, RowKey(i, u, p, 1), f, a, t, 0, <<>>) :
                u \in {NoUser} \cup Users, p \in Polls, f \in Fingerprints,
                a \in IpAddresses, t \in HistoryTimes} :
        i = 1 => (v.fingerprint = 1 /\ v.ip_address = 1 /\ v.created_at = 0
                  /\ v.user <= 1)}

ValidRows(rows) ==
    /\ \A a, b \in rows : a.id <= b.id => a.created_at <= b.created_at
    /\ unique_user_poll(rows)
    /\ unique_idempotency_key(rows)

\* the vote tables the engine is run on: up to n rows, in order of insertion
RECURSIVE HistoriesOf(_)
HistoriesOf(n) ==
    IF n = 0 THEN {{}}
    ELSE LET shorter == HistoriesOf(n - 1)
             longer == {rows \cup {r} :
                           rows \in {h \in shorter : Cardinality(h) = n - 1},
                           r \in HistoryRow(n)}
         IN shorter \cup {rows \in longer : ValidRows(rows)}

Histories == HistoriesOf(MaxHistory)

\* the histories of the engine: the first fingerprint is the one whose votes
\* are spread over the times; a vote of the other one is cast with the first
\* vote, no rule looking at the time of a single vote inside the window
EvalHistories ==
    {rows \in Histories : \A v \in rows : v.fingerprint # 1 => v.created_at = 0}

InitEval ==
    /\ \E rows \in EvalHistories : InitWith(rows, HistoryEnd)
    /\ polls = [p \in Polls |-> OpenPoll]

Evaluate(fingerprint, poll_id, user_id, ip_address, cacheOk) ==
    LET verdict == check_fingerprint_suspicious(fingerprint, poll_id, user_id,
                                                ip_address, cacheOk)
    IN /\ blocks' = auto_block(fingerprint, poll_id, user_id, ip_address, verdict)
       /\ lastOp' = Op("evaluate", fingerprint, verdict)
       /\ UNCHANGED <<unblocking, votes, nextVoteId, fpCache, idemCache, pollTotal,
                      optionCount, req, now, started, adminOps>>
       /\ UNCHANGED <<runs, polls, attempts, alerts, task, recorded, jobs>>

CheckIpCombination(fingerprint, ip_address, poll_id) ==
    /\ lastOp' = Op("check_ip_combination", fingerprint,
                    check_fingerprint_ip_combination(fingerprint, ip_address, poll_id))
    /\ UNCHANGED <<unblocking, votes, nextVoteId, blocks, fpCache, idemCache, pollTotal,
                   optionCount, req, now, started, adminOps>>
    /\ UNCHANGED <<runs, polls, attempts, alerts, task, recorded, jobs>>

\* an administrator blocks a fingerprint by hand
AdminBlock(fingerprint, admin) ==
    /\ adminOps < MaxAdminOps
    /\ ~is_blocked(fingerprint)
    /\ blocks' = block(fingerprint, "manual review", NoUser, 0, 0, admin)
    /\ adminOps' = adminOps + 1
    /\ lastOp' = Op("block", fingerprint, NotSuspicious)
    /\ UNCHANGED <<unblocking, votes, nextVoteId, fpCache, idemCache, pollTotal,
                   optionCount, req, now, started>>
    /\ UNCHANGED <<runs, polls, attempts, alerts, task, recorded, jobs>>

\* the filter on is_active inverted
unblock_selected_inactive(queryset) ==
    {f \in queryset : ~blocks[f].is_active}

\* FingerprintBlockAdmin.unblock_selected: the rows its loop goes through,
\* queryset.filter(is_active=True)
unblock_selected(queryset) ==
    {f \in queryset : blocks[f].is_active}

\* a sequence without its i-th element
Without(seq, i) == SubSeq(seq, 1, i - 1) \o SubSeq(seq, i + 1, Len(seq))

\* the action is started on the selected rows: the active ones among them
\* are fetched; with none fetched the loop has no turn and the action is
\* over; an action may start while another one is in its loop
UnblockSelected(queryset, admin) ==
    /\ adminOps < MaxAdminOps
    /\ queryset # {}
    /\ \A f \in queryset : blocks[f].present
    /\ LET rows == unblock_selected(queryset)
       IN unblocking' = IF rows = {} THEN unblocking
                        ELSE Append(unblocking, [rows |-> rows, user |-> admin])
    /\ adminOps' = adminOps + 1
    /\ lastOp' = Op("unblock_selected", CHOOSE f \in queryset : TRUE, NotSuspicious)
    /\ UNCHANGED <<votes, nextVoteId, blocks, fpCache, idemCache, pollTotal,
                   optionCount, req, now, started>>
    /\ UNCHANGED <<runs, polls, attempts, alerts, task, recorded, jobs>>

\* one turn of the loop: block.unblock(user=request.user) on one fetched row,
\* stored on its own; after the last row the message is shown
UnblockRow(i, fingerprint) ==
    /\ i \in DOMAIN unblocking
    /\ fingerprint \in unblocking[i].rows
    /\ blocks' = unblock(blocks, fingerprint, unblocking[i].user)
    /\ unblocking' = IF unblocking[i].rows = {fingerprint} THEN Without(unblocking, i)
                     ELSE [unblocking EXCEPT ![i].rows = @ \ {fingerprint}]
    /\ lastOp' = Op("unblock", fingerprint, NotSuspicious)
    /\ UNCHANGED <<votes, nextVoteId, fpCache, idemCache, pollTotal,
                   optionCount, req, now, started, adminOps>>
    /\ UNCHANGED <<runs, polls, attempts, alerts, task, recorded, jobs>>

CachedCount == LET RECURSIVE Sum(_)
                   Sum(K) == IF K = {} THEN 0
                             ELSE LET k == CHOOSE x \in K : TRUE
                                  IN fpCache[k].count + Sum(K \ {k})
               IN Sum(CacheKeys)

RecordActivity(fingerprint, poll_id, user_id, ip_address) ==
    /\ CachedCount < MaxCacheCount
    /\ fpCache' = update_fingerprint_cache(fingerprint, poll_id, user_id, ip_address)
    /\ recorded' = note_record(fingerprint, poll_id, user_id, ip_address)
    /\ lastOp' = Op("record", fingerprint, NotSuspicious)
    /\ UNCHANGED <<unblocking, votes, nextVoteId, blocks, idemCache, pollTotal,
                   optionCount, req, now, started, adminOps>>
    /\ UNCHANGED <<runs, polls, attempts, alerts, task, jobs>>

\* cache.clear(), an expiry of every entry, or a restart of the process: the
\* volatile state is lost, the database is not
CacheClear ==
    /\ fpCache' = [k \in CacheKeys |-> NoEntry]
    /\ recorded' = [k \in CacheKeys |-> NoRecorded]
    /\ idemCache' = <<>>
    /\ lastOp' = Op("cache_clear", NoFingerprint, NotSuspicious)
    /\ UNCHANGED <<unblocking, votes, nextVoteId, blocks, pollTotal, optionCount, req,
                   now, started, adminOps>>
    /\ UNCHANGED <<runs, polls, attempts, alerts, task, jobs>>

\* a time window passes
Tick ==
    /\ now + TIME_WINDOW <= MaxNow
    /\ now' = now + TIME_WINDOW
    /\ lastOp' = Op("tick", NoFingerprint, NotSuspicious)
    /\ UNCHANGED <<unblocking, votes, nextVoteId, blocks, fpCache, idemCache, pollTotal,
                   optionCount, req, started, adminOps>>
    /\ UNCHANGED <<runs, polls, attempts, alerts, task, recorded, jobs>>

NextEval ==
    \/ \E f \in Fingerprints, p \in Polls,
          u \in Users \cup {NoUser}, a \in IpAddresses \cup {NoIp} :
            Evaluate(f, p, u, a, TRUE)
    \/ \E f \in Fingerprints \cup {NoFingerprint}, a \in IpAddresses \cup {NoIp},
          p \in Polls : CheckIpCombination(f, a, p)
    \/ \E f \in Fingerprints, admin \in Admins : AdminBlock(f, admin)
    \/ \E q \in SUBSET Fingerprints, admin \in Admins : UnblockSelected(q, admin)
    \/ \E i \in 1..MaxAdminOps, f \in Fingerprints : UnblockRow(i, f)
    \/ \E p \in Polls : RecordActivity(1, p, 1, 1)
    \/ CacheClear
    \/ Tick

SpecEval == InitEval /\ [][NextEval]_vars

(***************************************************************************)
(* The cast of a vote: VoteViewSet.cast and the stages of cast_vote.        *)
(***************************************************************************)
\* keys a client may send: none, one that is no digest, and a digest of its own
MalformedKey == [len |-> 24, hex |-> FALSE, text |-> <<1, 2, 3>>]
ClientKey == [len |-> DIGEST_LENGTH, hex |-> TRUE, text |-> <<Colon>>]
SuppliedKeys == {NoKey, MalformedKey, ClientKey}

Terminal == {"accepted", "replayed", "rejected"}

\* a rejected duplicate answered like any other bad request
response_status_conflict_as_bad_request(outcome) ==
    CASE outcome = "created" -> 201
      [] outcome = "replayed" -> 200
      [] outcome = "Unauthorized" -> 401
      [] outcome = "PollNotFoundError" -> 404
      [] outcome = "FraudDetectedError" -> 403
      [] outcome = "IPBlockedError" -> 403
      [] outcome = "InternalServerError" -> 500
      [] OTHER -> 400

\* a detected fraud answered like any other bad request
response_status_fraud_as_bad_request(outcome) ==
    CASE outcome = "created" -> 201
      [] outcome = "replayed" -> 200
      [] outcome = "Unauthorized" -> 401
      [] outcome = "PollNotFoundError" -> 404
      [] outcome = "DuplicateVoteError" -> 409
      [] outcome = "IPBlockedError" -> 403
      [] outcome = "InternalServerError" -> 500
      [] OTHER -> 400

\* the status of the response for each way a cast ends
response_status(outcome) ==
    CASE outcome = "created" -> 201
      [] outcome = "replayed" -> 200
      [] outcome = "Unauthorized" -> 401
      [] outcome = "PollNotFoundError" -> 404
      [] outcome = "DuplicateVoteError" -> 409
      [] outcome = "FraudDetectedError" -> 403
      [] outcome = "IPBlockedError" -> 403
      [] outcome = "InternalServerError" -> 500
      [] OTHER -> 400

\* a closed poll reported under the code of an invalid one
error_code_closed_as_invalid(outcome) ==
    IF outcome \in {"created", "replayed", "Unauthorized"} THEN ""
    ELSE IF outcome = "PollClosedError" THEN "InvalidPollError"
    ELSE outcome

\* the error_code of the response body; the answers without an error and the
\* answer to an anonymous request carry none
error_code(outcome) ==
    IF outcome \in {"created", "replayed", "Unauthorized"} THEN "" ELSE outcome

End(r, pc, outcome, vote, is_new) ==
    [r EXCEPT !.pc = pc, !.outcome = outcome, !.vote = vote, !.is_new = is_new,
              !.status = response_status(outcome),
              !.error_code = error_code(outcome), !.at = r.pc]

\* the exception is swallowed and the request goes on
Fail_swallowed(r) == [r EXCEPT !.fault = TRUE]

\* an unexpected exception reaches the view and becomes the generic error
Fail(r) ==
    End([r EXCEPT !.fault = TRUE], "rejected", "InternalServerError", NoVote, FALSE)

RowOf(rows) == IF rows = {} THEN NoVote ELSE (CHOOSE v \in rows : TRUE).id

\* the audit row of a cast that has ended; its poll is a foreign key that is
\* not nullable, so that no row can be stored for a poll that does not exist
record_attempt(r) ==
    IF r.poll \notin DOMAIN polls THEN attempts
    ELSE Append(attempts,
                VoteAttempt(r.user, r.poll, r.option, r.key, r.fingerprint, r.ip,
                            r.is_new, r.error_code))

\* the work handed over once the transaction of an accepted cast has
\* committed: the broadcast of the results and, for a cast that carries a
\* fingerprint, the analysis of the fingerprint
dispatch_after_commit(r) ==
    {[kind |-> "broadcast_poll_results_update", vote |-> r.vote, poll |-> r.poll,
      fingerprint |-> r.fingerprint]}
    \cup (IF r.fingerprint # NoFingerprint
          THEN {[kind |-> "analyze_fingerprint_patterns", vote |-> r.vote,
                 poll |-> r.poll, fingerprint |-> r.fingerprint]}
          ELSE {})

\* work handed over by every cast that ends, whatever its outcome
dispatched_on_any_end(r) ==
    IF r.pc \in Terminal THEN dispatch_after_commit(r) ELSE {}

\* the work a cast hands over: none unless its transaction has committed
dispatched(r) ==
    IF r.pc = "accepted" THEN dispatch_after_commit(r) ELSE {}

\* cast_vote leaves the audit row when it returns or raises
Logged(w) ==
    attempts' = IF req'[w].pc \in Terminal THEN record_attempt(req'[w])
                ELSE attempts

\* the checks of the poll and of the option, in the order of cast_vote
validate_poll_and_option(poll_id, choice_id, t) ==
    IF poll_id \notin DOMAIN polls THEN "PollNotFoundError"
    ELSE IF polls[poll_id].is_draft THEN "InvalidPollError"
    ELSE IF ~is_open(polls[poll_id], t) THEN "PollClosedError"
    ELSE IF choice_id \notin OptionsOf(poll_id) THEN "InvalidVoteError"
    ELSE ""

\* VoteCastSerializer(data=request.data).is_valid: the body carries the id
\* of a poll and the id of an option, and the poll is stored
serializer_is_valid(poll_id, well_formed) ==
    well_formed /\ poll_id \in DOMAIN polls

\* the key of a cast taken over from the request whatever its form
idempotency_key_as_supplied(user, poll_id, choice_id, supplied) ==
    IF supplied = NoKey THEN generate_idempotency_key(user, poll_id, choice_id)
    ELSE supplied

\* the key of a cast: the one the request supplies if it is a key that
\* validate_idempotency_key accepts, the one derived from the ids otherwise
idempotency_key(user, poll_id, choice_id, supplied) ==
    IF validate_idempotency_key(supplied) THEN supplied
    ELSE generate_idempotency_key(user, poll_id, choice_id)

\* the cast as cast_vote takes it up, with the votes that are stored under
\* its key and for its user when it comes in
Request(user, poll_id, choice_id, supplied, fingerprint, ip_address) ==
    LET key == idempotency_key(user, poll_id, choice_id, supplied)
    IN [Idle EXCEPT
           !.pc = "received", !.user = user, !.poll = poll_id,
           !.option = choice_id, !.supplied = supplied,
           !.fingerprint = fingerprint, !.ip = ip_address,
           !.key_row = RowOf({v \in votes :
                                 /\ v.idempotency_key = key
                                 /\ v.user = user /\ v.poll = poll_id
                                 /\ v.option = choice_id}),
           !.user_row = RowOf({v \in votes :
                                  v.user = user /\ v.poll = poll_id})]

\* the request reaches the view: a body the serializer refuses is answered
\* 400 before anything else is done, an anonymous request is answered 401,
\* and the others are handed to cast_vote
Receive(w, user, poll_id, choice_id, supplied, fingerprint, ip_address, well_formed) ==
    /\ req[w].pc = "idle"
    /\ started < MaxCasts
    /\ started' = started + 1
    /\ LET r == Request(user, poll_id, choice_id, supplied, fingerprint, ip_address)
           unseen == [r EXCEPT !.key_row = NoVote, !.user_row = NoVote]
       IN req' = [req EXCEPT ![w] =
                    IF ~serializer_is_valid(poll_id, well_formed)
                    THEN End(unseen, "rejected", "ValidationError", NoVote, FALSE)
                    ELSE IF user = NoUser /\ poll_id \in DOMAIN polls
                    THEN End(unseen, "rejected", "Unauthorized", NoVote, FALSE)
                    ELSE r]
    /\ UNCHANGED <<unblocking, votes, nextVoteId, blocks, fpCache, idemCache, pollTotal,
                   optionCount, now, adminOps, lastOp>>
    /\ UNCHANGED <<runs, polls, attempts, alerts, task, recorded, jobs>>

\* cast_vote called with ids that no serializer has looked at
CastVote(w, user, poll_id, choice_id, supplied, fingerprint, ip_address) ==
    /\ req[w].pc = "idle"
    /\ started < MaxCasts
    /\ started' = started + 1
    /\ req' = [req EXCEPT ![w] =
                 Request(user, poll_id, choice_id, supplied, fingerprint, ip_address)]
    /\ UNCHANGED <<unblocking, votes, nextVoteId, blocks, fpCache, idemCache, pollTotal,
                   optionCount, now, adminOps, lastOp>>
    /\ UNCHANGED <<runs, polls, attempts, alerts, task, recorded, jobs>>

\* the poll and the option are looked up and the key is derived or taken over
ResolveIdentity(w) ==
    /\ req[w].pc = "received"
    /\ LET r == req[w]
           error == validate_poll_and_option(r.poll, r.option, now)
       IN req' = [req EXCEPT ![w] =
                    IF error # ""
                    THEN End(r, "rejected", error, NoVote, FALSE)
                    ELSE [r EXCEPT !.pc = "identity-resolved",
                                   !.key = idempotency_key(r.user, r.poll, r.option,
                                                           r.supplied),
                                   !.total_read = pollTotal[r.poll],
                                   !.count_read = optionCount[r.option]]]
    /\ UNCHANGED <<unblocking, votes, nextVoteId, blocks, fpCache, idemCache, pollTotal,
                   optionCount, now, started, adminOps, lastOp>>
    /\ Logged(w)
    /\ UNCHANGED <<runs, polls, alerts, task, recorded, jobs>>

\* the duplicate checks handing a cast that passed them to the engine at once
duplicate_outcome_past_registry(r, queryOk) ==
    LET existing == check_duplicate_vote_by_idempotency(r.key, queryOk)
    IN IF existing # NoVote THEN End(r, "replayed", "replayed", existing, FALSE)
       ELSE IF ~queryOk THEN Fail(r)
       ELSE IF \E v \in votes : v.user = r.user /\ v.poll = r.poll
            THEN End(r, "rejected", "DuplicateVoteError", NoVote, FALSE)
            ELSE [r EXCEPT !.pc = "block-checked"]

\* the outcome of the duplicate checks against the stored votes
duplicate_outcome(r, queryOk) ==
    LET existing == check_duplicate_vote_by_idempotency(r.key, queryOk)
    IN IF existing # NoVote THEN End(r, "replayed", "replayed", existing, FALSE)
       ELSE IF ~queryOk THEN Fail(r)
       ELSE IF \E v \in votes : v.user = r.user /\ v.poll = r.poll
            THEN End(r, "rejected", "DuplicateVoteError", NoVote, FALSE)
            ELSE [r EXCEPT !.pc = "duplicate-checked"]

DuplicateCheck(w, dbOk) ==
    /\ req[w].pc = "identity-resolved"
    /\ LET r == req[w]
           cached == check_idempotency(r.key)
       IN req' = [req EXCEPT ![w] =
                    IF cached # NoVote
                    THEN End(r, "replayed", "replayed", cached, FALSE)
                    ELSE duplicate_outcome(r, dbOk)]
    /\ UNCHANGED <<unblocking, votes, nextVoteId, blocks, fpCache, idemCache, pollTotal,
                   optionCount, now, started, adminOps, lastOp>>
    /\ Logged(w)
    /\ UNCHANGED <<runs, polls, alerts, task, recorded, jobs>>

\* the registry is consulted before any other check of the fingerprint
BlockCheck(w, dbOk) ==
    /\ req[w].pc = "duplicate-checked"
    /\ LET r == req[w]
       IN req' = [req EXCEPT ![w] =
                    IF ~dbOk THEN Fail(r)
                    ELSE IF is_blocked(r.fingerprint)
                    THEN End([r EXCEPT !.verdict = PermanentlyBlocked],
                             "rejected", "FraudDetectedError", NoVote, FALSE)
                    ELSE [r EXCEPT !.pc = "block-checked"]]
    /\ UNCHANGED <<unblocking, votes, nextVoteId, blocks, fpCache, idemCache, pollTotal,
                   optionCount, now, started, adminOps, lastOp>>
    /\ Logged(w)
    /\ UNCHANGED <<runs, polls, alerts, task, recorded, jobs>>

\* the engine runs on the recent history; a blocking verdict writes the block
SuspicionEvaluate(w, dbOk, cacheOk) ==
    /\ req[w].pc = "block-checked"
    /\ LET r == [req[w] EXCEPT !.cache_fault = @ \/ ~cacheOk]
           verdict == check_fingerprint_suspicious(r.fingerprint, r.poll, r.user,
                                                   r.ip, cacheOk)
       IN IF ~dbOk
          THEN /\ req' = [req EXCEPT ![w] = Fail(req[w])]
               /\ UNCHANGED blocks
          ELSE /\ blocks' = auto_block(r.fingerprint, r.poll, r.user, r.ip, verdict)
               /\ req' = [req EXCEPT ![w] =
                            IF verdict.block_vote
                            THEN End([r EXCEPT !.verdict = verdict],
                                     "rejected", "FraudDetectedError", NoVote, FALSE)
                            ELSE [r EXCEPT !.pc = "suspicion-evaluated",
                                           !.verdict = verdict]]
    /\ UNCHANGED <<unblocking, votes, nextVoteId, fpCache, idemCache, pollTotal,
                   optionCount, now, started, adminOps, lastOp>>
    /\ Logged(w)
    /\ UNCHANGED <<runs, polls, alerts, task, recorded, jobs>>

\* the insert under the constraints of the table, the counters and the caches;
\* a conflict on a constraint is answered from the row that won
Commit(w, dbOk) ==
    /\ req[w].pc = "suspicion-evaluated"
    /\ LET r == req[w]
           row == Vote(nextVoteId, r.user, r.poll, r.option, r.key, r.fingerprint,
                       r.ip, now, r.verdict.risk_score, r.verdict.reasons)
           conflict == \/ ~unique_idempotency_key(votes \cup {row})
                       \/ ~unique_user_poll(votes \cup {row})
       IN IF ~dbOk \/ conflict
          THEN /\ req' = [req EXCEPT ![w] =
                            IF ~dbOk THEN Fail(r)
                            ELSE LET again == duplicate_outcome(r, TRUE)
                                 IN IF again.pc \in Terminal THEN again
                                    ELSE End(r, "rejected", "InternalServerError",
                                             NoVote, FALSE)]
               /\ UNCHANGED <<votes, nextVoteId, fpCache, idemCache, pollTotal,
                              optionCount, recorded>>
          ELSE /\ votes' = votes \cup {row}
               /\ nextVoteId' = nextVoteId + 1
               /\ pollTotal' = [pollTotal EXCEPT ![r.poll] = r.total_read + 1]
               /\ optionCount' = [optionCount EXCEPT ![r.option] = r.count_read + 1]
               /\ idemCache' = store_idempotency_result(r.key, row.id)
               /\ fpCache' = IF r.fingerprint # NoFingerprint
                             THEN update_fingerprint_cache(r.fingerprint, r.poll,
                                                           r.user, r.ip)
                             ELSE fpCache
               /\ recorded' = IF r.fingerprint # NoFingerprint
                              THEN note_record(r.fingerprint, r.poll, r.user, r.ip)
                              ELSE recorded
               /\ req' = [req EXCEPT ![w] = End(r, "accepted", "created", row.id, TRUE)]
    /\ UNCHANGED <<unblocking, blocks, now, started, adminOps, lastOp>>
    /\ Logged(w)
    /\ jobs' = jobs \cup dispatched(req'[w])
    /\ UNCHANGED <<runs, polls, alerts, task>>

\* the response is sent and the worker takes the next request
Respond(w) ==
    /\ req[w].pc \in Terminal
    /\ req' = [req EXCEPT ![w] = Idle]
    /\ UNCHANGED <<unblocking, votes, nextVoteId, blocks, fpCache, idemCache, pollTotal,
                   optionCount, now, started, adminOps, lastOp>>
    /\ UNCHANGED <<runs, polls, attempts, alerts, task, recorded, jobs>>

\* the vote table at the start: empty, or holding a vote the first user cast
\* earlier under one of the keys, with the cache entries of that cast expired
StoredBefore ==
    {{}} \cup
    {{Vote(1, 1, 1, 1, key, 1, 1, 0, 0, <<>>)} :
        key \in {generate_idempotency_key(1, 1, 1), ClientKey}}

PollStates == {OpenPoll, DraftPoll, InactivePoll, ExpiredPoll, RetractablePoll}

\* the poll is in one of its states; an open poll and a poll that has been
\* deactivated may hold the vote cast earlier, a draft has had no vote, and
\* the poll whose end time has come with the clock has had none either
Init ==
    \E rows \in StoredBefore, poll \in PollStates \ {RetractablePoll} :
        /\ poll \in {DraftPoll, ExpiredPoll} => rows = {}
        /\ InitWith(rows, 0)
        /\ polls = [p \in Polls |-> poll]

\* the entries of both caches expire
CacheExpire ==
    /\ \/ idemCache # <<>>
       \/ \E k \in CacheKeys : fpCache[k].present
    /\ fpCache' = [k \in CacheKeys |-> NoEntry]
    /\ recorded' = [k \in CacheKeys |-> NoRecorded]
    /\ idemCache' = <<>>
    /\ UNCHANGED <<unblocking, votes, nextVoteId, blocks, pollTotal, optionCount, req, now,
                   started, adminOps, lastOp>>
    /\ UNCHANGED <<runs, polls, attempts, alerts, task, jobs>>

\* each user votes from an address of their own; the first user has one
\* device, the second may use either
Next ==
    \/ \E w \in Workers, user \in Users, p \in Polls,
          c \in Options \cup {ForeignOption}, k \in SuppliedKeys,
          f \in Fingerprints :
            f <= user /\ Receive(w, user, p, c, k, f, user, TRUE)
    \/ \E w \in Workers : Receive(w, NoUser, 1, 1, NoKey, 1, 1, TRUE)
    \/ \E w \in Workers : Receive(w, 1, 1, 1, NoKey, 1, 1, FALSE)
    \/ \E w \in Workers : Receive(w, 1, MissingPoll, 1, NoKey, 1, 1, TRUE)
    \/ \E w \in Workers : ResolveIdentity(w)
    \/ \E w \in Workers, dbOk \in BOOLEAN : DuplicateCheck(w, dbOk)
    \/ \E w \in Workers, dbOk \in BOOLEAN : BlockCheck(w, dbOk)
    \/ \E w \in Workers, dbOk \in BOOLEAN, cacheOk \in BOOLEAN :
          SuspicionEvaluate(w, dbOk, cacheOk)
    \/ \E w \in Workers, dbOk \in BOOLEAN : Commit(w, dbOk)
    \/ \E w \in Workers : Respond(w)
    \/ CacheExpire

Spec == Init /\ [][Next]_vars

\* a worker that has taken a request runs each stage of it to its end
Fairness ==
    \A w \in Workers :
        /\ WF_vars(ResolveIdentity(w))
        /\ WF_vars(\E dbOk \in BOOLEAN : DuplicateCheck(w, dbOk))
        /\ WF_vars(\E dbOk \in BOOLEAN : BlockCheck(w, dbOk))
        /\ WF_vars(\E dbOk \in BOOLEAN, cacheOk \in BOOLEAN :
                      SuspicionEvaluate(w, dbOk, cacheOk))
        /\ WF_vars(\E dbOk \in BOOLEAN : Commit(w, dbOk))
        /\ WF_vars(Respond(w))

FairSpec == Spec /\ Fairness

\* the row that clone_poll stores for the copy: inactive, a draft or not as
\* the caller says, with the end time of the original and, when the settings
\* are cloned, its settings
clone_poll(poll, clone_settings, is_draft) ==
    [is_draft |-> is_draft, is_active |-> FALSE, ends_at |-> poll.ends_at,
     allow_vote_retraction |-> clone_settings /\ poll.allow_vote_retraction]

CloneOp(error, poll_id, user) ==
    [op |-> "clone_poll", fingerprint |-> NoFingerprint, verdict |-> NotSuspicious,
     error |-> error, poll |-> poll_id, created_by |-> user]

\* clone_poll(poll, user, ...): a poll without options is refused; for the
\* others the row of the copy is stored under the next id, and the loop over
\* the options then reads a name that was never bound: no option is stored,
\* the caller gets the NameError, and the row of the copy stays, there being
\* no transaction around the two
ClonePoll(poll_id, user, clone_settings, is_draft) ==
    /\ poll_id \in DOMAIN polls
    /\ OptionsOf(poll_id) # {} =>
          Cardinality(DOMAIN polls) < Cardinality(Polls) + MaxClones
    /\ LET copy == SetMax(DOMAIN polls) + 1
       IN IF OptionsOf(poll_id) = {}
          THEN /\ lastOp' = CloneOp("ValueError", NoPoll, user)
               /\ UNCHANGED <<polls, pollTotal>>
          ELSE /\ polls' = [p \in DOMAIN polls \cup {copy} |->
                               IF p = copy
                               THEN clone_poll(polls[poll_id], clone_settings, is_draft)
                               ELSE polls[p]]
               /\ pollTotal' = [p \in DOMAIN pollTotal \cup {copy} |->
                                   IF p = copy THEN 0 ELSE pollTotal[p]]
               /\ lastOp' = CloneOp("NameError", copy, user)
    /\ UNCHANGED <<unblocking, votes, nextVoteId, blocks, fpCache, idemCache,
                   optionCount, req, now, started, adminOps, runs, attempts,
                   alerts, task, recorded, jobs>>

(***************************************************************************)
(* Casts on polls in every state, for polls and options that do not exist. *)
(***************************************************************************)
\* the polls a cast may name: the stored ones, the one a clone would be, and
\* one that is never stored
CastPolls == Polls \cup {SetMax(Polls) + 1, MissingPoll}

\* the clock stands after the end time of the expired poll
InitPoll ==
    \E poll \in PollStates :
        /\ InitWith({}, 1)
        /\ polls = [p \in Polls |-> poll]

NextPoll ==
    \/ \E w \in Workers, user \in Users, p \in CastPolls,
          c \in Options \cup {ForeignOption}, well_formed \in BOOLEAN :
            Receive(w, user, p, c, NoKey, 1, user, well_formed)
    \/ \E w \in Workers, k \in SuppliedKeys \ {NoKey} :
            Receive(w, 1, 1, 1, k, 1, 1, TRUE)
    \/ \E w \in Workers, p \in CastPolls :
            Receive(w, NoUser, p, 1, NoKey, 1, 1, TRUE)
    \/ \E w \in Workers, user \in Users, p \in CastPolls,
          c \in Options \cup {ForeignOption} :
            CastVote(w, user, p, c, NoKey, 1, user)
    \/ \E p \in CastPolls \ {MissingPoll}, user \in Users,
          clone_settings \in BOOLEAN, is_draft \in BOOLEAN :
            ClonePoll(p, user, clone_settings, is_draft)
    \/ \E w \in Workers : ResolveIdentity(w)
    \/ \E w \in Workers, dbOk \in BOOLEAN : DuplicateCheck(w, dbOk)
    \/ \E w \in Workers, dbOk \in BOOLEAN : BlockCheck(w, dbOk)
    \/ \E w \in Workers, dbOk \in BOOLEAN, cacheOk \in BOOLEAN :
          SuspicionEvaluate(w, dbOk, cacheOk)
    \/ \E w \in Workers, dbOk \in BOOLEAN : Commit(w, dbOk)
    \/ \E w \in Workers : Respond(w)

SpecPoll == InitPoll /\ [][NextPoll]_vars

(***************************************************************************)
(* Casts that race on a poll in any state, for any option and any key.     *)
(***************************************************************************)
\* a vote the first user cast earlier may be stored, unless the poll is a
\* draft; the clock stands after the end time of the expired poll
InitCasts ==
    \E rows \in StoredBefore, poll \in PollStates :
        /\ poll = DraftPoll => rows = {}
        /\ InitWith(rows, 1)
        /\ polls = [p \in Polls |-> poll]

NextCasts ==
    \/ \E w \in Workers, user \in Users, p \in Polls,
          c \in Options \cup {ForeignOption}, k \in SuppliedKeys,
          f \in Fingerprints, well_formed \in BOOLEAN :
            f <= user /\ Receive(w, user, p, c, k, f, user, well_formed)
    \/ \E w \in Workers, user \in Users, c \in Options :
            CastVote(w, user, MissingPoll, c, NoKey, 1, user)
    \/ \E w \in Workers, p \in Polls \cup {MissingPoll} :
            Receive(w, NoUser, p, 1, NoKey, 1, 1, TRUE)
    \/ \E w \in Workers : ResolveIdentity(w)
    \/ \E w \in Workers, dbOk \in BOOLEAN : DuplicateCheck(w, dbOk)
    \/ \E w \in Workers, dbOk \in BOOLEAN : BlockCheck(w, dbOk)
    \/ \E w \in Workers, dbOk \in BOOLEAN, cacheOk \in BOOLEAN :
          SuspicionEvaluate(w, dbOk, cacheOk)
    \/ \E w \in Workers, dbOk \in BOOLEAN : Commit(w, dbOk)
    \/ \E w \in Workers : Respond(w)
    \/ CacheExpire

SpecCasts == InitCasts /\ [][NextCasts]_vars

(***************************************************************************)
(* The activity cache under record() of the casts and runs of              *)
(* apps/votes/tasks.py, analyze_fingerprint_patterns, in any order.        *)
(***************************************************************************)
MaxRecords == 3
FINGERPRINT_ANALYSIS_WINDOW_HOURS == 168

\* what a run of analyze_fingerprint_patterns comes to. Without a
\* fingerprint, or without a vote of the fingerprint on the poll in the
\* window, it returns at once. Else it goes on to historical_votes[-1] on
\* the QuerySet, which takes no negative index: the exception is caught at
\* the end of the task and logged, as is one raised by the query, and the
\* cache.get and the cache.set further down are never reached
analyze_fingerprint_patterns(fingerprint, poll_id, t, queryOk) ==
    IF fingerprint = NoFingerprint THEN "returned"
    ELSE IF ~queryOk THEN "error logged"
    ELSE IF historical_votes(fingerprint, poll_id,
                t - FINGERPRINT_ANALYSIS_WINDOW_HOURS * UnitsPerHour) = {}
         THEN "returned"
    ELSE "error logged"

AnalysisOp(fingerprint, poll_id, outcome) ==
    [op |-> "analysis", fingerprint |-> fingerprint, verdict |-> NotSuspicious,
     poll |-> poll_id, outcome |-> outcome]

\* a run of the task at any time
AnalyzeFingerprintPatterns(fingerprint, poll_id, queryOk) ==
    /\ lastOp' = AnalysisOp(fingerprint, poll_id,
                    analyze_fingerprint_patterns(fingerprint, poll_id, now, queryOk))
    /\ UNCHANGED <<unblocking, votes, nextVoteId, blocks, fpCache, idemCache, pollTotal,
                   optionCount, req, now, started, adminOps, runs, polls,
                   attempts, alerts, task, recorded, jobs>>

\* record() of a cast that was accepted, as one call of
\* update_fingerprint_cache with no other call on the entry in progress
Record(fingerprint, poll_id, user_id, ip_address) ==
    /\ recorded[get_fingerprint_cache_key(fingerprint, poll_id)].count < MaxRecords
    /\ fpCache[get_fingerprint_cache_key(fingerprint, poll_id)].count < MaxRecords
    /\ fpCache' = update_fingerprint_cache(fingerprint, poll_id, user_id, ip_address)
    /\ recorded' = note_record(fingerprint, poll_id, user_id, ip_address)
    /\ UNCHANGED <<unblocking, votes, nextVoteId, blocks, idemCache, pollTotal, optionCount,
                   req, now, started, adminOps, lastOp, runs, polls, attempts, alerts,
                   task, jobs>>

\* record() in a worker among others: the entry is a dict under its key in
\* the cache, which the call gets
UpdateFingerprintCacheGet(w, fingerprint, poll_id, user_id, ip_address) ==
    /\ req[w].pc = "idle"
    /\ started < MaxRecords
    /\ started' = started + 1
    /\ req' = [req EXCEPT ![w] =
                  [Idle EXCEPT !.pc = "cache-read",
                               !.fingerprint = fingerprint,
                               !.poll = poll_id,
                               !.user = user_id,
                               !.ip = ip_address,
                               !.cached_data =
                                   read_fingerprint_cache(fingerprint, poll_id, TRUE)]]
    /\ UNCHANGED <<unblocking, votes, nextVoteId, blocks, fpCache, idemCache, pollTotal,
                   optionCount, now, adminOps, lastOp, runs, polls, attempts,
                   alerts, task, recorded, jobs>>

\* and sets again with the user and the address of the cast merged in
UpdateFingerprintCacheSet(w) ==
    /\ req[w].pc = "cache-read"
    /\ fpCache' = [fpCache EXCEPT
                      ![get_fingerprint_cache_key(req[w].fingerprint, req[w].poll)] =
                          cached_data_after(req[w].cached_data, req[w].user, req[w].ip)]
    /\ recorded' = note_record(req[w].fingerprint, req[w].poll, req[w].user, req[w].ip)
    /\ req' = [req EXCEPT ![w] = Idle]
    /\ UNCHANGED <<unblocking, votes, nextVoteId, blocks, idemCache, pollTotal, optionCount,
                   now, started, adminOps, lastOp, runs, polls, attempts, alerts,
                   task, jobs>>

\* one vote with the first fingerprint is stored
InitCache ==
    /\ InitWith({Vote(1, 1, 1, 1, generate_idempotency_key(1, 1, 1), 1, 1, 0, 0, <<>>)},
                HistoryEnd)
    /\ polls = [p \in Polls |-> OpenPoll]

\* the workers record casts of the first fingerprint and the task runs at
\* any time; an entry expires only with no call on it in progress
NextCache ==
    \/ \E w \in Workers, p \in Polls, u \in Users \cup {NoUser}, a \in IpAddresses :
          UpdateFingerprintCacheGet(w, 1, p, u, a)
    \/ \E w \in Workers : UpdateFingerprintCacheSet(w)
    \/ \E f \in Fingerprints \cup {NoFingerprint}, p \in Polls, queryOk \in BOOLEAN :
          AnalyzeFingerprintPatterns(f, p, queryOk)
    \/ (\A w \in Workers : req[w].pc = "idle") /\ CacheExpire

SpecCache == InitCache /\ [][NextCache]_vars

(***************************************************************************)
(* The work dispatched by accepted casts: the broadcast of the results and *)
(* analyze_fingerprint_patterns.                                           *)
(***************************************************************************)
\* what a call of broadcast_poll_results_update comes to. Without a channel
\* layer it logs a warning and returns. Else it calls calculate_poll_results
\* with use_cache=False, which fetches the poll into _poll and then reads
\* poll.options: the name poll is not bound, the NameError is caught in the
\* broadcast and logged, and nothing is sent to the group
broadcast_poll_results_update(poll_id, channel_layer) ==
    IF ~channel_layer THEN "skipped" ELSE "error logged"

Broadcast(job, channel_layer) ==
    /\ job \in jobs
    /\ job.kind = "broadcast_poll_results_update"
    /\ jobs' = jobs \ {job}
    /\ lastOp' = [op |-> "broadcast", fingerprint |-> NoFingerprint,
                  verdict |-> NotSuspicious, poll |-> job.poll,
                  outcome |-> broadcast_poll_results_update(job.poll, channel_layer)]
    /\ UNCHANGED <<unblocking, votes, nextVoteId, blocks, fpCache, idemCache, pollTotal,
                   optionCount, req, now, started, adminOps, runs, polls,
                   attempts, alerts, task, recorded>>

\* analyze_fingerprint_patterns is run for a cast
StartAnalysis(job, queryOk) ==
    /\ job \in jobs
    /\ job.kind = "analyze_fingerprint_patterns"
    /\ jobs' = jobs \ {job}
    /\ lastOp' = AnalysisOp(job.fingerprint, job.poll,
                    analyze_fingerprint_patterns(job.fingerprint, job.poll, now,
                                                 queryOk))
    /\ UNCHANGED <<unblocking, votes, nextVoteId, blocks, fpCache, idemCache, pollTotal,
                   optionCount, req, now, started, adminOps, runs, polls,
                   attempts, alerts, task, recorded>>

\* casts of the two users, with and without a fingerprint, whose insert may
\* fail; the work they dispatch runs at any later time
NextDispatch ==
    \/ \E w \in Workers, user \in Users, c \in Options,
          f \in {NoFingerprint, 1} : Receive(w, user, 1, c, NoKey, f, user, TRUE)
    \/ \E w \in Workers : ResolveIdentity(w)
    \/ \E w \in Workers : DuplicateCheck(w, TRUE)
    \/ \E w \in Workers : BlockCheck(w, TRUE)
    \/ \E w \in Workers : SuspicionEvaluate(w, TRUE, TRUE)
    \/ \E w \in Workers, dbOk \in BOOLEAN : Commit(w, dbOk)
    \/ \E w \in Workers : Respond(w)
    \/ \E job \in jobs, channel_layer \in BOOLEAN : Broadcast(job, channel_layer)
    \/ \E job \in jobs, queryOk \in BOOLEAN : StartAnalysis(job, queryOk)

SpecDispatch == Init /\ [][NextDispatch]_vars

(***************************************************************************)
(* The engine and detect_suspicious_fingerprint_changes over votes inside  *)
(* and outside the window, on the poll and on another one.                 *)
(***************************************************************************)
OtherPoll == 2
NewFingerprint == 3
RAPID_CHANGES == 3

\* the votes of the poll in the window cast by the user or, for an attempt
\* without a user, from the address
identity_votes(user_id, ip_address, poll_id) ==
    {v \in votes : /\ v.poll = poll_id
                   /\ v.created_at >= now - TIME_WINDOW
                   /\ IF user_id # NoUser THEN v.user = user_id
                      ELSE v.ip_address = ip_address}

\* the current fingerprint differs from one the user or the address used
\* before; three or more fingerprints of one identity are rapid changes
detect_suspicious_fingerprint_changes(fingerprint, user_id, ip_address, poll_id) ==
    LET previous == {v.fingerprint :
                        v \in identity_votes(user_id, ip_address, poll_id)}
                    \ {NoFingerprint}
        changed == previous \ {fingerprint} # {}
        rapid == Cardinality(previous \cup {fingerprint}) >= RAPID_CHANGES
    IN IF fingerprint = NoFingerprint \/ ~changed THEN NotSuspicious
       ELSE [NotSuspicious EXCEPT
                !.suspicious = TRUE,
                !.reasons = <<"fingerprint changed">>
                            \o (IF rapid THEN <<"rapid changes">> ELSE <<>>)]

DetectChanges(fingerprint, user_id, ip_address, poll_id) ==
    /\ lastOp' = Op("detect_changes", fingerprint,
                    detect_suspicious_fingerprint_changes(fingerprint, user_id,
                                                          ip_address, poll_id))
    /\ UNCHANGED <<unblocking, votes, nextVoteId, blocks, fpCache, idemCache, pollTotal,
                   optionCount, req, now, started, adminOps, runs, polls,
                   attempts, alerts, task, recorded, jobs>>

\* the candidates for the i-th stored vote, on the poll or on the other one
WindowRow(i) ==
    {v \in {Vote(i, u, p, 1, RowKey(i, u, p, 1), f, a, t, 0, <<>>) :
                u \in {NoUser} \cup Users, p \in Polls \cup {OtherPoll},
                f \in Fingerprints, a \in IpAddresses, t \in HistoryTimes} :
        i = 1 => (v.fingerprint = 1 /\ v.ip_address = 1 /\ v.user <= 1)}

\* a vote is stored, as by Vote.objects.create with a time of its own
StoreVote(row) ==
    /\ Cardinality(votes) < MaxHistory
    /\ row.created_at <= now
    /\ ValidRows(votes \cup {row})
    /\ votes' = votes \cup {row}
    /\ nextVoteId' = nextVoteId + 1
    /\ lastOp' = Op("store", row.fingerprint, NotSuspicious)
    /\ UNCHANGED <<unblocking, blocks, fpCache, idemCache, pollTotal, optionCount, req, now,
                   started, adminOps, runs, polls, attempts, alerts, task,
                   recorded, jobs>>

InitWindow ==
    /\ InitWith({}, HistoryEnd)
    /\ polls = [p \in Polls |-> OpenPoll]

NextWindow ==
    \/ \E row \in WindowRow(nextVoteId) : StoreVote(row)
    \/ \E f \in Fingerprints, p \in Polls, u \in Users \cup {NoUser},
          a \in IpAddresses \cup {NoIp} : Evaluate(f, p, u, a, TRUE)
    \/ \E f \in Fingerprints \cup {NewFingerprint}, p \in Polls,
          u \in Users \cup {NoUser}, a \in IpAddresses :
            DetectChanges(f, u, a, p)
    \/ Tick

SpecWindow == InitWindow /\ [][NextWindow]_vars

(***************************************************************************)
(* Sequences of record() on the entries of the cache, with expiry.         *)
(***************************************************************************)
InitRecord ==
    /\ InitWith({}, 1)
    /\ polls = [p \in Polls |-> OpenPoll]

NextRecord ==
    \/ \E f \in Fingerprints, p \in Polls, user \in Users \cup {NoUser},
          ip \in IpAddresses \cup {NoIp} : Record(f, p, user, ip)
    \/ CacheExpire

SpecRecord == InitRecord /\ [][NextRecord]_vars

(***************************************************************************)
(* generate_idempotency_key and validate_idempotency_key on pairs of       *)
(* triples of ids.                                                         *)
(***************************************************************************)
MaxIdDigits == 2
IdDigits == {1, 2}

\* the ids written with n of the digits
RECURSIVE IdsOfLength(_)
IdsOfLength(n) ==
    IF n = 1 THEN IdDigits
    ELSE {10 * head + digit : head \in IdsOfLength(n - 1), digit \in IdDigits}

Ids == UNION {IdsOfLength(n) : n \in 1..MaxIdDigits}

Triples == Ids \X Ids \X Ids

InitKeys ==
    /\ votes = {}
    /\ nextVoteId = 1
    /\ blocks = [f \in Fingerprints |-> NoBlock]
    /\ fpCache = [k \in CacheKeys |-> NoEntry]
    /\ idemCache = <<>>
    /\ pollTotal = [p \in Polls |-> 0]
    /\ optionCount = [o \in Options |-> 0]
    /\ req = [w \in Workers |-> Idle]
    /\ now = 1
    /\ started = 0
    /\ adminOps = 0
    /\ \E first \in Triples, second \in Triples :
          lastOp = [op |-> "ids", fingerprint |-> NoFingerprint,
                    verdict |-> NotSuspicious, first |-> first,
                    second |-> second, keys |-> <<NoKey, NoKey>>,
                    valid |-> <<FALSE, FALSE>>]
    /\ attempts = <<>>
    /\ alerts = {}
    /\ task = IdleTask
    /\ recorded = [k \in CacheKeys |-> NoRecorded]
    /\ runs = <<>>
    /\ jobs = {}
    /\ unblocking = NoUnblocking
    /\ polls = [p \in Polls |-> OpenPoll]

\* the keys of the two triples are derived and validated
GenerateKeys ==
    /\ lastOp.op = "ids"
    /\ LET first == generate_idempotency_key(lastOp.first[1], lastOp.first[2],
                                             lastOp.first[3])
           second == generate_idempotency_key(lastOp.second[1], lastOp.second[2],
                                              lastOp.second[3])
       IN lastOp' = [lastOp EXCEPT !.op = "generate_idempotency_key",
                                   !.keys = <<first, second>>,
                                   !.valid = <<validate_idempotency_key(first),
                                               validate_idempotency_key(second)>>]
    /\ UNCHANGED <<unblocking, votes, nextVoteId, blocks, fpCache, idemCache, pollTotal,
                   optionCount, req, now, started, adminOps, runs, polls,
                   attempts, alerts, task, recorded, jobs>>

NextKeys == GenerateKeys

SpecKeys == InitKeys /\ [][NextKeys]_vars

(***************************************************************************)
(* The retraction of a vote: VoteViewSet.destroy behind CanVotePermission. *)
(***************************************************************************)
\* the statuses of a request refused for want of authentication: which one
\* depends on the authentication classes of the deployment
NotAuthenticatedStatuses == {401, 403}

\* CanVotePermission.has_permission for DELETE
has_permission_delete(user) == user # NoUser

\* the first query with the check of the owner left out
destroy_vote_status_any_owner(user, vote_id, denied) ==
    LET found == {v \in votes : v.id = vote_id}
    IN IF ~has_permission_delete(user) THEN denied
       ELSE IF found = {} THEN 404
       ELSE 0

\* the permission, the first query of destroy, Vote.objects.get(id=vote_id),
\* and the check of the owner: the status of the refusal, 0 when there is none
destroy_vote_status(user, vote_id, denied) ==
    LET found == {v \in votes : v.id = vote_id}
        vote == CHOOSE v \in found : TRUE
    IN IF ~has_permission_delete(user) THEN denied
       ELSE IF found = {} THEN 404
       ELSE IF vote.user # user THEN 403
       ELSE 0

\* the second query of destroy, poll = vote.poll, and the checks of the poll
\* as it is stored when the query runs
destroy_poll_status(poll_id) ==
    IF ~polls[poll_id].allow_vote_retraction THEN 403
    ELSE IF ~is_open(polls[poll_id], now) THEN 403
    ELSE 0

\* DELETE /api/v1/votes/{id}/: destroy runs its two queries, its delete and
\* its two counter updates as separate statements, outside of any transaction
DestroyOp(response, user, vote_id) ==
    [op |-> "destroy", fingerprint |-> NoFingerprint, verdict |-> NotSuspicious,
     status |-> response, user |-> user, vote |-> vote_id]

\* the vote is fetched and its owner checked; a refusal is answered at once
DestroyGetVote(w, user, vote_id, denied) ==
    /\ req[w].pc = "idle"
    /\ LET response == destroy_vote_status(user, vote_id, denied)
           vote == CHOOSE v \in votes : v.id = vote_id
       IN IF response = 0
          THEN /\ req' = [req EXCEPT ![w] =
                            [Idle EXCEPT !.pc = "destroy-fetched", !.user = user,
                                         !.vote = vote_id, !.poll = vote.poll,
                                         !.option = vote.option]]
               /\ UNCHANGED lastOp
          ELSE /\ lastOp' = DestroyOp(response, user, vote_id)
               /\ UNCHANGED req
    /\ UNCHANGED <<unblocking, votes, nextVoteId, blocks, fpCache, idemCache, pollTotal,
                   optionCount, now, started, adminOps>>
    /\ UNCHANGED <<runs, polls, attempts, alerts, task, recorded, jobs>>

\* the poll of the fetched vote is fetched, by a query of its own, and
\* checked; a refusal is answered at once, whatever has become of the vote
DestroyGetPoll(w) ==
    /\ req[w].pc = "destroy-fetched"
    /\ LET response == destroy_poll_status(req[w].poll)
       IN IF response = 0
          THEN /\ req' = [req EXCEPT ![w].pc = "destroy-checked"]
               /\ UNCHANGED lastOp
          ELSE /\ lastOp' = DestroyOp(response, req[w].user, req[w].vote)
               /\ req' = [req EXCEPT ![w] = Idle]
    /\ UNCHANGED <<unblocking, votes, nextVoteId, blocks, fpCache, idemCache, pollTotal,
                   optionCount, now, started, adminOps>>
    /\ UNCHANGED <<runs, polls, attempts, alerts, task, recorded, jobs>>

\* vote.delete(): the row goes, if it is still there, and with it the
\* alerts that hang on it (FraudAlert.vote is on_delete=CASCADE)
DestroyDelete(w) ==
    /\ req[w].pc = "destroy-checked"
    /\ votes' = {v \in votes : v.id # req[w].vote}
    /\ alerts' = {x \in alerts : x.vote # req[w].vote}
    /\ req' = [req EXCEPT ![w].pc = "destroy-deleted"]
    /\ UNCHANGED <<unblocking, nextVoteId, blocks, fpCache, idemCache, pollTotal,
                   optionCount, now, started, adminOps, lastOp>>
    /\ UNCHANGED <<runs, polls, attempts, task, recorded, jobs>>

\* the counter of the option, less one
DestroyOptionCount(w) ==
    /\ req[w].pc = "destroy-deleted"
    /\ optionCount' = [optionCount EXCEPT ![req[w].option] = @ - 1]
    /\ req' = [req EXCEPT ![w].pc = "destroy-option-updated"]
    /\ UNCHANGED <<unblocking, votes, nextVoteId, blocks, fpCache, idemCache, pollTotal,
                   now, started, adminOps, lastOp>>
    /\ UNCHANGED <<runs, polls, attempts, alerts, task, recorded, jobs>>

\* the counter of the poll, less one, and the answer
DestroyPollTotal(w) ==
    /\ req[w].pc = "destroy-option-updated"
    /\ pollTotal' = [pollTotal EXCEPT ![req[w].poll] = @ - 1]
    /\ lastOp' = DestroyOp(204, req[w].user, req[w].vote)
    /\ req' = [req EXCEPT ![w] = Idle]
    /\ UNCHANGED <<unblocking, votes, nextVoteId, blocks, fpCache, idemCache, optionCount,
                   now, started, adminOps>>
    /\ UNCHANGED <<runs, polls, attempts, alerts, task, recorded, jobs>>

\* the owner of the poll closes it
ClosePoll(poll_id) ==
    /\ polls[poll_id].is_active
    /\ polls' = [polls EXCEPT ![poll_id].is_active = FALSE]
    /\ lastOp' = Op("close_poll", NoFingerprint, NotSuspicious)
    /\ UNCHANGED <<unblocking, votes, nextVoteId, blocks, fpCache, idemCache, pollTotal,
                   optionCount, req, now, started, adminOps, runs, attempts,
                   alerts, task, recorded, jobs>>

RetractPollStates ==
    {OpenPoll, RetractablePoll, [RetractablePoll EXCEPT !.ends_at = 0],
     [RetractablePoll EXCEPT !.ends_at = HistoryEnd + 1]}

\* the vote tables of the retractions: destroy does not look at the time of
\* a vote, and the votes are taken to be cast at one moment
RetractHistories == {rows \in Histories : \A v \in rows : v.created_at = 0}

InitRetract ==
    /\ \E rows \in RetractHistories : InitWith(rows, HistoryEnd)
    /\ \E poll \in RetractPollStates : polls = [p \in Polls |-> poll]

(***************************************************************************)
(* The pattern analyzer: apps/votes/tasks.py, analyze_vote_patterns_task   *)
(* and periodic_pattern_analysis, over core/utils/pattern_analysis.        *)
(***************************************************************************)
MaxRuns == 2
DEFAULT_TIME_WINDOW_HOURS == 24
CLUSTER_MIN_VOTES == 2
IP_CLUSTER_SCORE == 60
FINGERPRINT_CLUSTER_SCORE == 80
ALERT_THRESHOLD == 70

Pattern(poll_id, kind, members, score) ==
    [poll |-> poll_id, kind |-> kind, votes |-> members, risk_score |-> score]

\* the patterns of one poll: an address with several votes, a fingerprint
\* shared by several users
patterns_of_poll(poll_id, time_window_hours, t) ==
    LET rows == {v \in votes : /\ v.poll = poll_id
                               /\ v.created_at >= t - time_window_hours * UnitsPerHour}
        of_ip(a) == {v \in rows : v.ip_address = a}
        of_fp(f) == {v \in rows : v.fingerprint = f}
    IN {Pattern(poll_id, <<"ip_cluster", a>>, {v.id : v \in of_ip(a)}, IP_CLUSTER_SCORE) :
            a \in {x \in IpAddresses : Cardinality(of_ip(x)) >= CLUSTER_MIN_VOTES}}
       \cup
       {Pattern(poll_id, <<"fingerprint_cluster", f>>, {v.id : v \in of_fp(f)},
                FINGERPRINT_CLUSTER_SCORE) :
            f \in {x \in Fingerprints :
                      Cardinality(distinct_users(of_fp(x))) >= CLUSTER_MIN_VOTES}}

\* analyze_vote_patterns: one poll, or every active poll when none is named;
\* it detects and creates no alert, so the number of alerts it reports is 0
analyze_vote_patterns(poll_id, time_window_hours, t) ==
    LET scanned == IF poll_id = NoPoll
                   THEN {p \in DOMAIN polls : polls[p].is_active}
                   ELSE {poll_id} \cap DOMAIN polls
        found == UNION {patterns_of_poll(p, time_window_hours, t) : p \in scanned}
    IN [patterns_detected |-> found,
        alerts_generated |-> 0,
        total_suspicious_patterns |-> Cardinality(found),
        highest_risk_score |-> IF found = {} THEN 0
                               ELSE SetMax({x.risk_score : x \in found})]

VoteIds(rows) == {v.id : v \in rows}

\* the alert of a pattern hangs on the first vote of the pattern
alert_of(poll_id, pattern, id) ==
    LET first == CHOOSE v \in votes : v.id = SetMin(pattern.votes)
    IN [id |-> id, poll |-> poll_id, vote |-> first.id, user |-> first.user,
        ip_address |-> first.ip_address, reasons |-> pattern.kind,
        risk_score |-> pattern.risk_score]

\* an id that no stored alert has
next_alert_id(rows) == IF rows = {} THEN 1 ELSE SetMax({x.id : x \in rows}) + 1

\* the vote the alert would hang on is still stored: FraudAlert.vote is
\* not null, so a pattern whose first vote has been retracted gets no alert
anchored(pattern) == SetMin(pattern.votes) \in VoteIds(votes)

alerted(rows, poll_id, pattern) ==
    \E x \in rows : x.poll = poll_id /\ x.reasons = pattern.kind

\* the alerts a call makes, after those in made: one for each pattern above
\* the threshold whose first vote is stored, and one only for patterns of
\* the call that share a signature; a stored alert of an earlier call is
\* nowhere looked up, and the table of FraudAlert has no unique constraint
RECURSIVE alerts_of_call(_, _, _, _)
alerts_of_call(poll_id, patterns, rows, made) ==
    IF patterns = {} THEN made
    ELSE LET pattern == CHOOSE x \in patterns : TRUE
             rest == patterns \ {pattern}
         IN IF \/ pattern.risk_score < ALERT_THRESHOLD
               \/ alerted(made, poll_id, pattern)
               \/ ~anchored(pattern)
            THEN alerts_of_call(poll_id, rest, rows, made)
            ELSE alerts_of_call(poll_id, rest, rows,
                    made \cup {alert_of(poll_id, pattern,
                                        next_alert_id(rows \cup made))})

\* generate_pattern_alerts: the result is the table of alerts after the call
generate_pattern_alerts(poll_id, patterns, rows) ==
    rows \cup alerts_of_call(poll_id, patterns, rows, {})

\* the reasons of a vote with one more, unless it is there already
with_reason(reasons, reason) ==
    IF InReasons(reason, reasons) THEN reasons ELSE Append(reasons, reason)

RECURSIVE flag_vote(_, _)
flag_vote(v, patterns) ==
    IF patterns = {} THEN v
    ELSE LET pattern == CHOOSE x \in patterns : TRUE
         IN flag_vote([v EXCEPT !.is_valid = FALSE,
                                !.fraud_reasons = with_reason(@, pattern.kind),
                                !.risk_score = IF @ < pattern.risk_score
                                               THEN pattern.risk_score ELSE @],
                      patterns \ {pattern})

\* flag_suspicious_votes: the votes of the poll after the call and the number
\* of votes that match a pattern
flag_suspicious_votes(poll_id, patterns) ==
    LET matching(v) == {x \in patterns : x.poll = poll_id /\ v.id \in x.votes}
    IN [votes |-> {flag_vote(v, matching(v)) : v \in votes},
        flagged_count |-> Cardinality({v \in votes : matching(v) # {}})]

\* what analyze_vote_patterns_task returns at its end: the counts are those
\* of the result of analyze_vote_patterns
task_return(t) ==
    [success |-> TRUE, poll_id |-> t.poll, patterns_detected |-> t.total_patterns,
     alerts_generated |-> t.total_alerts, highest_risk_score |-> t.highest_risk]

\* what it returns from its except branch
task_error(t) == [success |-> FALSE, poll_id |-> t.poll]

\* what periodic_pattern_analysis returns at its end
periodic_result(poll_count, t) ==
    [success |-> TRUE, polls_analyzed |-> poll_count,
     total_patterns |-> t.total_patterns, total_alerts |-> t.total_alerts,
     highest_risk_score |-> t.highest_risk]

\* what it returns from its outer except branch
periodic_error == [success |-> FALSE]

\* what a run leaves in the log: what it was started on, the polls it went
\* through, what it logged and what it returned
RunLog(t, result, voteRows) ==
    [task |-> t.name, poll |-> t.poll, at |-> t.at, ended |-> now,
     history |-> t.history, history_end |-> VoteIds(voteRows),
     detected |-> t.detected, created |-> t.created,
     flagged_count |-> t.flagged_count,
     visited |-> t.visited, failed |-> t.failed, result |-> result]

\* analyze_vote_patterns_task up to the return of analyze_vote_patterns; a
\* run without a poll id makes no other call and ends here, and an
\* exception ends the task in its except branch
AnalyzeVotePatternsTask(poll_id, ok) ==
    /\ task.pc = "idle"
    /\ Len(runs) < MaxRuns
    /\ LET results == analyze_vote_patterns(poll_id, DEFAULT_TIME_WINDOW_HOURS, now)
           run == [IdleTask EXCEPT !.name = "analyze_vote_patterns_task",
                                   !.poll = poll_id, !.at = now,
                                   !.history = VoteIds(votes)]
           analyzed == [run EXCEPT !.found = results.patterns_detected,
                                   !.detected = results.patterns_detected,
                                   !.total_patterns = results.total_suspicious_patterns,
                                   !.total_alerts = results.alerts_generated,
                                   !.highest_risk = results.highest_risk_score]
       IN IF ~ok
          THEN /\ runs' = Append(runs, RunLog(run, task_error(run), votes))
               /\ task' = IdleTask
          ELSE IF poll_id = NoPoll
          THEN /\ runs' = Append(runs, RunLog(analyzed, task_return(analyzed), votes))
               /\ task' = IdleTask
          ELSE /\ runs' = runs
               /\ task' = [analyzed EXCEPT !.pc = "analyzed"]
    /\ UNCHANGED <<unblocking, votes, nextVoteId, blocks, fpCache, idemCache, pollTotal,
                   optionCount, req, now, started, adminOps, lastOp, polls, attempts,
                   alerts, recorded, jobs>>

\* its call of generate_pattern_alerts on the patterns it holds
TaskAlerts(ok) ==
    /\ task.pc = "analyzed"
    /\ IF ok
       THEN LET after == generate_pattern_alerts(task.poll, task.found, alerts)
            IN /\ alerts' = after
               /\ task' = [task EXCEPT !.pc = "alerted",
                              !.created = Cardinality(after) - Cardinality(alerts)]
               /\ runs' = runs
       ELSE /\ alerts' = alerts
            /\ task' = IdleTask
            /\ runs' = Append(runs, RunLog(task, task_error(task), votes))
    /\ UNCHANGED <<unblocking, votes, nextVoteId, blocks, fpCache, idemCache, pollTotal,
                   optionCount, req, now, started, adminOps, lastOp, polls, attempts,
                   recorded, jobs>>

\* its call of flag_suspicious_votes, and the return
TaskFlags(ok) ==
    /\ task.pc = "alerted"
    /\ IF ok
       THEN LET flagged == flag_suspicious_votes(task.poll, task.found)
                done == [task EXCEPT !.flagged_count = flagged.flagged_count]
            IN /\ votes' = flagged.votes
               /\ runs' = Append(runs, RunLog(done, task_return(done), flagged.votes))
       ELSE /\ votes' = votes
            /\ runs' = Append(runs, RunLog(task, task_error(task), votes))
    /\ task' = IdleTask
    /\ UNCHANGED <<unblocking, nextVoteId, blocks, fpCache, idemCache, pollTotal,
                   optionCount, req, now, started, adminOps, lastOp, polls, attempts,
                   alerts, recorded, jobs>>

\* periodic_pattern_analysis up to poll_count = active_polls.count(); an
\* exception ends the run in its outer except branch
PeriodicPatternAnalysis(ok) ==
    /\ task.pc = "idle"
    /\ Len(runs) < MaxRuns
    /\ LET run == [IdleTask EXCEPT !.name = "periodic_pattern_analysis",
                                   !.at = now, !.history = VoteIds(votes)]
           active_polls == {p \in DOMAIN polls : polls[p].is_active}
       IN IF ok
          THEN /\ task' = [run EXCEPT !.pc = "counted",
                                      !.poll_count = Cardinality(active_polls)]
               /\ runs' = runs
          ELSE /\ task' = IdleTask
               /\ runs' = Append(runs, RunLog(run, periodic_error, votes))
    /\ UNCHANGED <<unblocking, votes, nextVoteId, blocks, fpCache, idemCache, pollTotal,
                   optionCount, req, now, started, adminOps, lastOp, polls, attempts,
                   alerts, recorded, jobs>>

\* for poll in active_polls: the query is run again and its rows are the
\* polls of the loop
PeriodicList(ok) ==
    /\ task.pc = "counted"
    /\ IF ok
       THEN /\ task' = [task EXCEPT !.pc = "looping",
                           !.todo = {p \in DOMAIN polls : polls[p].is_active}]
            /\ runs' = runs
       ELSE /\ task' = IdleTask
            /\ runs' = Append(runs, RunLog(task, periodic_error, votes))
    /\ UNCHANGED <<unblocking, votes, nextVoteId, blocks, fpCache, idemCache, pollTotal,
                   optionCount, req, now, started, adminOps, lastOp, polls, attempts,
                   alerts, recorded, jobs>>

\* except Exception ... continue: the error is logged and the loop goes on
\* with the next poll
skipped(t, poll_id) ==
    [t EXCEPT !.pc = "looping", !.todo = @ \ {poll_id}, !.cur = NoPoll,
              !.found = {}, !.created = 0,
              !.visited = Append(@, poll_id), !.failed = @ \cup {poll_id}]

\* the body of the loop for the next poll, up to the return of
\* analyze_vote_patterns
PollAnalyze(poll_id, ok) ==
    /\ task.pc = "looping"
    /\ poll_id \in task.todo
    /\ LET results == analyze_vote_patterns(poll_id, DEFAULT_TIME_WINDOW_HOURS, now)
       IN task' = IF ok
                  THEN [task EXCEPT !.pc = "poll-analyzed", !.cur = poll_id,
                                    !.found = results.patterns_detected,
                                    !.detected = @ \cup results.patterns_detected]
                  ELSE skipped(task, poll_id)
    /\ UNCHANGED <<unblocking, votes, nextVoteId, blocks, fpCache, idemCache, pollTotal,
                   optionCount, req, now, started, adminOps, lastOp, polls, attempts,
                   alerts, recorded, jobs, runs>>

\* the call of generate_pattern_alerts for the poll
PollAlerts(ok) ==
    /\ task.pc = "poll-analyzed"
    /\ IF ok
       THEN LET after == generate_pattern_alerts(task.cur, task.found, alerts)
            IN /\ alerts' = after
               /\ task' = [task EXCEPT !.pc = "poll-alerted",
                              !.created = Cardinality(after) - Cardinality(alerts)]
       ELSE /\ alerts' = alerts
            /\ task' = skipped(task, task.cur)
    /\ UNCHANGED <<unblocking, votes, nextVoteId, blocks, fpCache, idemCache, pollTotal,
                   optionCount, req, now, started, adminOps, lastOp, polls, attempts,
                   recorded, jobs, runs>>

\* the call of flag_suspicious_votes for the poll, then the totals
PollFlags(ok) ==
    /\ task.pc = "poll-alerted"
    /\ IF ok
       THEN LET flagged == flag_suspicious_votes(task.cur, task.found)
            IN /\ votes' = flagged.votes
               /\ task' = [task EXCEPT
                              !.pc = "looping", !.todo = @ \ {task.cur},
                              !.cur = NoPoll, !.found = {}, !.created = 0,
                              !.visited = Append(@, task.cur),
                              !.total_patterns = @ + Cardinality(task.found),
                              !.total_alerts = @ + task.created,
                              !.highest_risk =
                                  SetMax({@} \cup {x.risk_score : x \in task.found}),
                              !.flagged_count = @ + flagged.flagged_count]
       ELSE /\ votes' = votes
            /\ task' = skipped(task, task.cur)
    /\ UNCHANGED <<unblocking, nextVoteId, blocks, fpCache, idemCache, pollTotal,
                   optionCount, req, now, started, adminOps, lastOp, polls, attempts,
                   alerts, recorded, jobs, runs>>

\* after the last poll of the loop the run returns
PeriodicReturn ==
    /\ task.pc = "looping"
    /\ task.todo = {}
    /\ runs' = Append(runs, RunLog(task, periodic_result(task.poll_count, task), votes))
    /\ task' = IdleTask
    /\ UNCHANGED <<unblocking, votes, nextVoteId, blocks, fpCache, idemCache, pollTotal,
                   optionCount, req, now, started, adminOps, lastOp, polls, attempts,
                   alerts, recorded, jobs>>

InitAnalyze ==
    /\ \E rows \in Histories : InitWith(rows, HistoryEnd)
    /\ \E poll \in {OpenPoll, InactivePoll} : polls = [p \in Polls |-> poll]

\* runs of the two tasks, one at a time, each call of a run a step of its
\* own, while casts store votes and time passes
NextAnalyze ==
    \/ \E poll_id \in Polls \cup {NoPoll}, ok \in BOOLEAN :
          AnalyzeVotePatternsTask(poll_id, ok)
    \/ \E ok \in BOOLEAN : TaskAlerts(ok)
    \/ \E ok \in BOOLEAN : TaskFlags(ok)
    \/ \E ok \in BOOLEAN : PeriodicPatternAnalysis(ok)
    \/ \E ok \in BOOLEAN : PeriodicList(ok)
    \/ \E poll_id \in Polls, ok \in BOOLEAN : PollAnalyze(poll_id, ok)
    \/ \E ok \in BOOLEAN : PollAlerts(ok)
    \/ \E ok \in BOOLEAN : PollFlags(ok)
    \/ PeriodicReturn
    \/ \E row \in HistoryRow(nextVoteId) : StoreVote(row)
    \/ Tick

SpecAnalyze == InitAnalyze /\ [][NextAnalyze]_vars

\* retractions next to the closing of the poll and to one run of the pattern
\* analysis on it, whose alerts hang on the votes
NextRetract ==
    \/ \E w \in Workers, user \in Users, vote_id \in 1..(MaxHistory + 1) :
          DestroyGetVote(w, user, vote_id, 401)
    \/ \E w \in Workers, vote_id \in 1..(MaxHistory + 1),
          denied \in NotAuthenticatedStatuses : DestroyGetVote(w, NoUser, vote_id, denied)
    \/ \E w \in Workers : DestroyGetPoll(w)
    \/ \E w \in Workers : DestroyDelete(w)
    \/ \E w \in Workers : DestroyOptionCount(w)
    \/ \E w \in Workers : DestroyPollTotal(w)
    \/ \E p \in Polls : ClosePoll(p)
    \/ \E p \in Polls : runs = <<>> /\ AnalyzeVotePatternsTask(p, TRUE)
    \/ TaskAlerts(TRUE)
    \/ TaskFlags(TRUE)

SpecRetract == InitRetract /\ [][NextRetract]_vars

(***************************************************************************)
(* Properties of the suspicion engine.                                     *)
(***************************************************************************)
InSeq(x, seq) == \E i \in 1..Len(seq) : seq[i] = x

B(cond) == IF cond THEN 1 ELSE 0

EvalUsers == Users \cup {NoUser}
EvalIps == IpAddresses \cup {NoIp}

\* the stored votes of a fingerprint on a poll within the last 24 hours
InWindow(f, p) ==
    {v \in votes : v.fingerprint = f /\ v.poll = p
                   /\ now - v.created_at <= 24 * UnitsPerHour}

UsersSeen(f, p, u) == {x \in Users : x = u \/ \E v \in InWindow(f, p) : v.user = x}

IpsSeen(f, p, a) ==
    {x \in IpAddresses : x = a \/ \E v \in InWindow(f, p) : v.ip_address = x}

UsersRule(f, p, u) == Cardinality(UsersSeen(f, p, u)) >= 2

IpsRule(f, p, a) == Cardinality(IpsSeen(f, p, a)) >= 2

\* more than 10 votes per hour between the first and the last vote in the window
VelocityRule(f, p) ==
    \E first, last \in InWindow(f, p) :
        /\ \A v \in InWindow(f, p) :
              first.created_at <= v.created_at /\ v.created_at <= last.created_at
        /\ last.created_at > first.created_at
        /\ Cardinality(InWindow(f, p)) * UnitsPerHour
              > 10 * (last.created_at - first.created_at)

UnblockStep(f) == \E i \in 1..MaxAdminOps : UnblockRow(i, f)

\* C4: while a fingerprint has an active block, every evaluation for it, for any
\* poll, user and address, with or without the activity cache, returns
\* block_vote with risk score 100 and the reason "permanently blocked"; and the
\* block stays active across every step that is not an unblock of the
\* fingerprint (cache clears, restarts, the passing of time windows included).
C4_BlockedUntilUnblock ==
    /\ [](\A f \in Fingerprints :
            is_blocked(f) =>
              \A p \in Polls, u \in EvalUsers, a \in EvalIps, c \in BOOLEAN :
                  LET v == check_fingerprint_suspicious(f, p, u, a, c)
                  IN /\ v.block_vote
                     /\ v.risk_score = 100
                     /\ InSeq("permanently blocked", v.reasons))
    /\ [][\A f \in Fingerprints :
            is_blocked(f) =>
              /\ (is_blocked(f)' \/ UnblockStep(f))
              /\ (lastOp'.op = "evaluate" /\ lastOp'.fingerprint = f
                      => lastOp'.verdict.block_vote /\ lastOp'.verdict.risk_score = 100)
        ]_vars

\* a blocked fingerprint was evaluated and rejected after a time window has
\* passed, with nothing left in the activity cache
C4_Witness ==
    \E f \in Fingerprints :
        /\ is_blocked(f)
        /\ now > HistoryEnd
        /\ \A k \in CacheKeys : ~fpCache[k].present
        /\ lastOp.op = "evaluate" /\ lastOp.fingerprint = f
        /\ lastOp.verdict.block_vote
        /\ InSeq("permanently blocked", lastOp.verdict.reasons)

\* C5: an unblock of an actively blocked fingerprint leaves its row inactive and
\* stamped with the time and the administrator; and for a fingerprint whose row
\* is inactive, an evaluation whose recent history shows no multi-user, no
\* multi-address and no high-velocity pattern returns suspicious = false and
\* block_vote = false.
C5_UnblockedCleanAllowed ==
    /\ [](\A f \in Fingerprints :
            (blocks[f].present /\ ~blocks[f].is_active) =>
              \A p \in Polls, u \in EvalUsers, a \in EvalIps, c \in BOOLEAN :
                  (~UsersRule(f, p, u) /\ ~IpsRule(f, p, a) /\ ~VelocityRule(f, p))
                  => LET v == check_fingerprint_suspicious(f, p, u, a, c)
                     IN ~v.suspicious /\ ~v.block_vote)
    /\ [][/\ lastOp'.op = "unblock_selected" =>
               \A q \in SUBSET Fingerprints, admin \in Admins :
                   UnblockSelected(q, admin) =>
                       (IF \E f \in q : is_blocked(f)
                        THEN unblocking' = Append(unblocking,
                                                  [rows |-> {f \in q : is_blocked(f)},
                                                   user |-> admin])
                        ELSE unblocking' = unblocking)
          /\ lastOp'.op = "unblock" =>
               \A f \in Fingerprints, i \in 1..MaxAdminOps :
                   (is_blocked(f) /\ UnblockRow(i, f)) =>
                       /\ blocks'[f].present
                       /\ ~blocks'[f].is_active
                       /\ blocks'[f].unblocked_at = now
                       /\ blocks'[f].unblocked_by = unblocking[i].user
                       /\ unblocking[i].user \in Admins
          /\ lastOp'.op = "evaluate" =>
               \A f \in Fingerprints :
                   (/\ f = lastOp'.fingerprint
                    /\ blocks[f].present /\ ~blocks[f].is_active
                    /\ ~lastOp'.verdict.block_vote)
                   => ~is_blocked(f)'
         ]_vars

\* an unblocked fingerprint with a clean pattern was evaluated and let through
C5_Witness ==
    \E f \in Fingerprints :
        /\ blocks[f].present /\ ~blocks[f].is_active
        /\ blocks[f].unblocked_by \in Admins
        /\ blocks[f].unblocked_at >= 0
        /\ lastOp.op = "evaluate" /\ lastOp.fingerprint = f
        /\ ~lastOp.verdict.suspicious /\ ~lastOp.verdict.block_vote

\* C7: for a fingerprint with no active block, the risk score is
\* min(100, 40 [two or more users] + 30 [two or more addresses] + 20 [velocity]),
\* there is one reason per rule that fired, suspicious holds iff a rule fired,
\* and every returned risk score lies in 0..100.
C7_RiskScoreIsSumOfRules ==
    /\ \A f \in Fingerprints, p \in Polls, u \in EvalUsers, a \in EvalIps, c \in BOOLEAN :
          ~is_blocked(f) =>
            LET v == check_fingerprint_suspicious(f, p, u, a, c)
                U == UsersRule(f, p, u)
                I == IpsRule(f, p, a)
                V == VelocityRule(f, p)
            IN /\ v.risk_score = Min(100, 40 * B(U) + 30 * B(I) + 20 * B(V))
               /\ Len(v.reasons) = B(U) + B(I) + B(V)
               /\ InSeq("different users", v.reasons) <=> U
               /\ InSeq("different ip", v.reasons) <=> I
               /\ InSeq("rapid votes", v.reasons) <=> V
               /\ v.suspicious <=> (U \/ I \/ V)
               /\ v.risk_score \in 0..100
    /\ lastOp.verdict.risk_score \in 0..100

\* a fingerprint used by one user was evaluated for another user
C7_Witness ==
    /\ lastOp.op = "evaluate"
    /\ lastOp.verdict.suspicious
    /\ InSeq("different users", lastOp.verdict.reasons)
    /\ lastOp.verdict.risk_score >= 40
    /\ lastOp.verdict.risk_score < 100
    /\ \E v \in votes : v.fingerprint = lastOp.fingerprint /\ v.user # NoUser

\* C8: whenever the user rule or the address rule fires in an evaluation of a
\* fingerprint with no active block, block_vote is true; whenever the address
\* rule fires in check_ip_combination, block_vote is true; and
\* check_ip_combination returns suspicious = false when the fingerprint or the
\* address is missing and when every stored vote of the fingerprint came from
\* the address of the attempt.
C8_SharedFingerprintBlocks ==
    /\ \A f \in Fingerprints, p \in Polls, u \in EvalUsers, a \in EvalIps, c \in BOOLEAN :
          (~is_blocked(f) /\ (UsersRule(f, p, u) \/ IpsRule(f, p, a)))
              => check_fingerprint_suspicious(f, p, u, a, c).block_vote
    /\ \A f \in Fingerprints \cup {NoFingerprint}, p \in Polls, a \in EvalIps :
          LET v == check_fingerprint_ip_combination(f, a, p)
          IN /\ (f # NoFingerprint /\ a # NoIp /\ IpsRule(f, p, a)) => v.block_vote
             /\ (f = NoFingerprint \/ a = NoIp) => ~v.suspicious
             /\ (\A w \in votes : w.fingerprint = f => w.ip_address = a)
                    => ~v.suspicious

\* check_ip_combination blocked a fingerprint seen from two addresses
C8_Witness ==
    /\ lastOp.op = "check_ip_combination"
    /\ lastOp.verdict.block_vote
    /\ InSeq("different ip", lastOp.verdict.reasons)
    /\ \E v, w \in votes :
          /\ v.fingerprint = lastOp.fingerprint /\ w.fingerprint = lastOp.fingerprint
          /\ v.ip_address # w.ip_address

\* C9: for a fingerprint with no active block, the velocity reason is returned,
\* and the verdict is suspicious, exactly when the votes in the window over the
\* hours between the first and the last of them exceed 10 per hour; with no
\* votes, one vote or equal timestamps it is not returned.
C9_VelocityRule ==
    \A f \in Fingerprints, p \in Polls, u \in EvalUsers, a \in EvalIps, c \in BOOLEAN :
        ~is_blocked(f) =>
            LET v == check_fingerprint_suspicious(f, p, u, a, c)
                times == {w.created_at : w \in InWindow(f, p)}
            IN /\ InSeq("rapid votes", v.reasons) <=> VelocityRule(f, p)
               /\ VelocityRule(f, p) => v.suspicious
               /\ Cardinality(times) <= 1 => ~InSeq("rapid votes", v.reasons)

\* rapid votes of one voter from one address were flagged, and not blocked
C9_Witness ==
    /\ lastOp.op = "evaluate"
    /\ lastOp.verdict.reasons = <<"rapid votes">>
    /\ lastOp.verdict.suspicious
    /\ ~lastOp.verdict.block_vote
    /\ Cardinality({v.ip_address : v \in InWindow(lastOp.fingerprint, 1)}) = 1

\* C10: an evaluation that returns block_vote for a fingerprint with no active
\* block leaves an active row for it, with a reason, blocked_by empty and the
\* numbers of users and votes observed, so that every later evaluation of the
\* fingerprint is rejected as permanently blocked.
C10_AutoBlock ==
    /\ [](\A f \in Fingerprints :
             (blocks[f].present /\ blocks[f].is_active) =>
                 \A p2 \in Polls, u2 \in EvalUsers, a2 \in EvalIps, c2 \in BOOLEAN :
                     LET v == check_fingerprint_suspicious(f, p2, u2, a2, c2)
                     IN v.block_vote /\ InSeq("permanently blocked", v.reasons))
    /\ [][(lastOp'.op = "evaluate" /\ lastOp'.verdict.block_vote) =>
              \A f \in Fingerprints :
                  (lastOp'.fingerprint = f /\ ~is_blocked(f)) =>
                      \A p \in Polls, u \in EvalUsers, a \in EvalIps :
                          (/\ check_fingerprint_suspicious(f, p, u, a, TRUE).block_vote
                           /\ Evaluate(f, p, u, a, TRUE))
                          => /\ blocks'[f].present
                             /\ blocks'[f].is_active
                             /\ blocks'[f].reason # ""
                             /\ blocks'[f].blocked_by = NoUser
                             /\ blocks'[f].total_users = Cardinality(UsersSeen(f, p, u))
                             /\ blocks'[f].total_votes = Cardinality(InWindow(f, p))
          ]_vars

\* an evaluation blocked a shared fingerprint and wrote the block row
C10_Witness ==
    /\ lastOp.op = "evaluate"
    /\ lastOp.verdict.block_vote
    /\ ~InSeq("permanently blocked", lastOp.verdict.reasons)
    /\ is_blocked(lastOp.fingerprint)
    /\ blocks[lastOp.fingerprint].blocked_by = NoUser
    /\ blocks[lastOp.fingerprint].total_users >= 2

(***************************************************************************)
(* Properties of the cast.                                                 *)
(***************************************************************************)
RowsWithKey(key) == {v \in votes : v.idempotency_key = key}

RowsOfUser(user, poll) == {v \in votes : v.user = user /\ v.poll = poll}

C2_SecondVoteRejected ==
    \A w \in Workers :
        LET r == req[w]
        IN (/\ r.pc \in Terminal /\ r.user # NoUser /\ r.user_row # NoVote
            /\ ~r.fault /\ r.outcome # "replayed") =>
                /\ r.pc = "rejected"
                /\ r.outcome = "DuplicateVoteError"
                /\ r.status = 409
                /\ r.vote = NoVote
                /\ Cardinality(RowsOfUser(r.user, r.poll)) = 1

\* C2: a cast of an authenticated user that arrives when a vote of that user
\* on the poll is stored, meets no storage failure and is not a replay, is
\* rejected and returns no vote, and the user keeps exactly one stored vote on
\* the poll: with DuplicateVoteError (status 409) whichever option of the poll
\* it names when the poll is open, with PollClosedError (status 400) when the
\* poll has been closed since, and with InvalidVoteError (status 400) when
\* the poll is open and the option is not one of the poll.
C2_SecondVoteRejectedAfterValidation ==
    \A w \in Workers :
        LET r == req[w]
            error == validate_poll_and_option(r.poll, r.option, now)
        IN (/\ r.pc \in Terminal /\ r.user # NoUser /\ r.user_row # NoVote
            /\ ~r.fault /\ r.outcome # "replayed") =>
                /\ r.pc = "rejected"
                /\ error \in {"", "PollClosedError", "InvalidVoteError"}
                /\ error = "" =>
                      /\ r.option \in OptionsOf(r.poll)
                      /\ r.outcome = "DuplicateVoteError"
                      /\ r.status = 409
                /\ error # "" =>
                      /\ r.outcome = error
                      /\ r.status = 400
                /\ r.vote = NoVote
                /\ Cardinality(RowsOfUser(r.user, r.poll)) = 1

\* a second cast for the other option was rejected as a duplicate
C2_Witness ==
    \E w \in Workers, v \in votes :
        /\ req[w].pc = "rejected"
        /\ req[w].outcome = "DuplicateVoteError"
        /\ req[w].user_row = v.id
        /\ v.user = req[w].user
        /\ v.option # req[w].option

\* two calls of cast_vote for one user on one poll that are in flight
\* together, neither having found a stored vote of the user when it arrived;
\* a request that the serializer of the view refused made no call
Raced(w1, w2) ==
    /\ w1 # w2
    /\ req[w1].pc \in Terminal /\ req[w2].pc \in Terminal
    /\ req[w1].outcome # "ValidationError" /\ req[w2].outcome # "ValidationError"
    /\ req[w1].user # NoUser
    /\ req[w1].user = req[w2].user /\ req[w1].poll = req[w2].poll
    /\ req[w1].user_row = NoVote /\ req[w2].user_row = NoVote

\* no other user has a stored vote under the key of the cast
KeyOfOwn(r) == \A v \in votes : v.idempotency_key = r.key => v.user = r.user

\* the ways a call of cast_vote ends
CastOutcomes ==
    {"created", "replayed", "DuplicateVoteError", "PollNotFoundError",
     "InvalidPollError", "PollClosedError", "InvalidVoteError",
     "FraudDetectedError", "InternalServerError"}

C6_FailClosed ==
    [][\A w \in Workers :
          /\ (~req[w].fault /\ req'[w].fault) =>
                /\ req'[w].pc = "rejected"
                /\ req'[w].outcome = "InternalServerError"
                /\ req'[w].status = 500
                /\ req'[w].vote = NoVote
                /\ votes' = votes
                /\ pollTotal' = pollTotal
                /\ optionCount' = optionCount
          /\ req[w].fault => (req'[w] = req[w] \/ req'[w] = Idle)
          /\ (req[w].pc = "block-checked" /\ req'[w].cache_fault /\ ~req'[w].fault) =>
                (req'[w].pc = "rejected" <=>
                    \/ is_blocked(req[w].fingerprint)
                    \/ UsersRule(req[w].fingerprint, req[w].poll, req[w].user)
                    \/ IpsRule(req[w].fingerprint, req[w].poll, req[w].ip))
      ]_vars

\* the read of the registry failed for one cast, and another cast was accepted
\* although the activity cache was down
C6_Witness ==
    \E w1, w2 \in Workers :
        /\ req[w1].fault
        /\ req[w1].at = "duplicate-checked"
        /\ req[w1].outcome = "InternalServerError"
        /\ req[w2].cache_fault
        /\ req[w2].pc = "accepted"

(***************************************************************************)
(* Properties of the audit trail, the counters and the stages of a cast.   *)
(***************************************************************************)
LastAttempt == attempts[Len(attempts)]

\* the engine returned a blocking verdict to the cast of worker w in this step
BlockedInStep(w) ==
    /\ req[w].pc \in {"duplicate-checked", "block-checked"}
    /\ ~req[w].verdict.block_vote
    /\ req'[w].verdict.block_vote

\* C11: when the suspicion engine returns block_vote during a cast, the cast
\* is answered FraudDetectedError (403), no vote row is created, the counters
\* of the poll and of the option keep their values, and the only rows written
\* are one VoteAttempt with success = FALSE and possibly the FingerprintBlock
\* of the fingerprint of the cast.
C11_BlockedCastLeavesNoVote ==
    [][\A w \in Workers :
          BlockedInStep(w) =>
              /\ req'[w].pc = "rejected"
              /\ req'[w].outcome = "FraudDetectedError"
              /\ req'[w].error_code = "FraudDetectedError"
              /\ req'[w].status = 403
              /\ req'[w].vote = NoVote
              /\ votes' = votes /\ nextVoteId' = nextVoteId
              /\ pollTotal' = pollTotal /\ optionCount' = optionCount
              /\ alerts' = alerts /\ polls' = polls
              /\ Len(attempts') = Len(attempts) + 1
              /\ SubSeq(attempts', 1, Len(attempts)) = attempts
              /\ ~attempts'[Len(attempts')].success
              /\ attempts'[Len(attempts')].user = req[w].user
              /\ attempts'[Len(attempts')].poll = req[w].poll
              /\ \A f \in Fingerprints :
                    f # req[w].fingerprint => blocks'[f] = blocks[f]]_vars

C11_Witness ==
    \E w \in Workers :
        /\ req[w].pc = "rejected"
        /\ req[w].at = "block-checked"
        /\ req[w].outcome = "FraudDetectedError"
        /\ req[w].verdict.block_vote
        /\ blocks[req[w].fingerprint].is_active
        /\ attempts # <<>>
        /\ ~LastAttempt.success
        /\ LastAttempt.error_message = "FraudDetectedError"
        /\ \A v \in votes : v.user # req[w].user

\* cast_vote returns or raises for the cast of worker w in this step
CastVoteEnds(w) ==
    /\ req[w].pc \notin Terminal \cup {"idle"}
    /\ req'[w].pc \in Terminal

\* the rows stored so far are kept as they are
AttemptsKept ==
    /\ Len(attempts') >= Len(attempts)
    /\ SubSeq(attempts', 1, Len(attempts)) = attempts

\* C12: every call of cast_vote, whatever its outcome, leaves exactly one new
\* VoteAttempt row, whose success flag is true iff a vote row was created,
\* also when the cast is rejected; the rows stored before are never changed
\* or removed.
C12_OneAttemptPerCast ==
    [][/\ AttemptsKept
       /\ \A w \in Workers :
             CastVoteEnds(w) =>
                 /\ Len(attempts') = Len(attempts) + 1
                 /\ attempts'[Len(attempts')].success = (votes' # votes)]_vars

\* the same for the casts on a poll that exists; a step that ends no cast
\* stores no row
C12_OneAttemptPerCastOnStoredPoll ==
    [][/\ AttemptsKept
       /\ (\A w \in Workers : ~CastVoteEnds(w)) => attempts' = attempts
       /\ \A w \in Workers :
             (CastVoteEnds(w) /\ req[w].poll \in DOMAIN polls) =>
                 /\ Len(attempts') = Len(attempts) + 1
                 /\ attempts'[Len(attempts')].success = (votes' # votes)
                 /\ attempts'[Len(attempts')].poll = req[w].poll
                 /\ attempts'[Len(attempts')].user = req[w].user]_vars

\* a cast on a poll that does not exist has ended and left no row
C12_Witness ==
    \E w \in Workers :
        /\ req[w].pc = "rejected"
        /\ req[w].outcome = "PollNotFoundError"
        /\ attempts = <<>>

VotesOn(p) == {v \in votes : v.poll = p}

\* C13: for any interleaving of concurrent accepted casts on a poll, the
\* cached total of the poll grows by the number of accepted casts and the
\* cached count of each option by the number of accepted casts naming it: no
\* increment is lost.  The counters start at the number of stored votes and
\* every accepted cast stores one vote.
C13_NoLostIncrement ==
    /\ \A p \in Polls : pollTotal[p] = Cardinality(VotesOn(p))
    /\ \A o \in Options : optionCount[o] = CountOf(votes, o)

\* two casts were accepted while both were in flight
C13_Witness ==
    /\ \A w \in Workers : req[w].pc = "accepted"
    /\ \E p \in Polls : pollTotal[p] < Cardinality(VotesOn(p))

\* no step of a cast lowers a counter
C13_CountersNeverDecrease ==
    [][/\ \A p \in Polls : pollTotal'[p] >= pollTotal[p]
       /\ \A o \in Options : optionCount'[o] >= optionCount[o]]_vars

\* C14: a cast is all or nothing: in every step, also one in which a cast
\* fails, a counter moves by one exactly when a vote row is inserted for its
\* poll or option, so that no state has an increment without its vote or a
\* vote without its increment.
C14_IncrementIffVote ==
    [][/\ \A p \in Polls :
             pollTotal'[p] - pollTotal[p] =
                 Cardinality({v \in votes' : v.poll = p}) - Cardinality(VotesOn(p))
       /\ \A o \in Options :
             optionCount'[o] - optionCount[o] =
                 CountOf(votes', o) - CountOf(votes, o)]_vars

\* a vote was stored by a step that left the total of its poll as it was
C14_Witness ==
    \E w \in Workers :
        /\ req[w].pc = "accepted"
        /\ req[w].vote = nextVoteId - 1
        /\ pollTotal[req[w].poll] = req[w].total_read + 1
        /\ pollTotal[req[w].poll] < Cardinality(VotesOn(req[w].poll))

\* the transaction of a cast: a step that fails writes neither a vote nor a
\* counter, and a step that stores a vote writes both counters from the
\* values the cast read
C14_CommitOrRollback ==
    [][\A w \in Workers :
          /\ (req'[w].fault /\ ~req[w].fault) =>
                  /\ votes' = votes
                  /\ pollTotal' = pollTotal
                  /\ optionCount' = optionCount
          /\ (req[w].pc = "suspicion-evaluated" /\ req'[w].pc = "accepted") =>
                  /\ Cardinality(votes') = Cardinality(votes) + 1
                  /\ pollTotal'[req[w].poll] = req[w].total_read + 1
                  /\ optionCount'[req[w].option] = req[w].count_read + 1
          /\ (\A x \in Workers : req'[x].pc # "accepted" \/ req[x].pc = "accepted") =>
                  /\ votes' = votes
                  /\ pollTotal' = pollTotal
                  /\ optionCount' = optionCount]_vars

\* C15: for any interleaving of the writers of a cache entry, record() of
\* the casts and the write-back of analyze_fingerprint_patterns, no update is
\* lost: after k calls of record() with no expiry in between, the count of
\* the entry is k and its sets hold every user and address recorded.
C15_NoLostRecord ==
    \A k \in CacheKeys :
        recorded[k].count > 0 =>
            /\ fpCache[k].present
            /\ fpCache[k].count = recorded[k].count
            /\ recorded[k].users \subseteq fpCache[k].users
            /\ recorded[k].ips \subseteq fpCache[k].ips

\* two calls of record() for two users have both returned, each having read
\* the entry before the other wrote it, and the entry counts one call and
\* holds one of the users
C15_Witness ==
    \E k \in CacheKeys :
        /\ \A w \in Workers : req[w].pc = "idle"
        /\ recorded[k].count = 2
        /\ Cardinality(recorded[k].users) = 2
        /\ fpCache[k].present
        /\ fpCache[k].count = 1
        /\ Cardinality(fpCache[k].users) = 1

Periodic(run) == run.task = "periodic_pattern_analysis"

\* the polls a run went through
ScopeOf(run) ==
    IF Periodic(run) THEN {run.visited[i] : i \in 1..Len(run.visited)}
    ELSE {run.poll} \ {NoPoll}

PatternsCounted(run) ==
    IF Periodic(run) THEN run.result.total_patterns ELSE run.result.patterns_detected

AlertsCreated(run) ==
    IF Periodic(run) THEN run.result.total_alerts ELSE run.created

\* the run made all its calls, while no time passed and no vote was stored
Undisturbed(run) ==
    /\ run.result.success
    /\ run.failed = {}
    /\ run.ended = run.at
    /\ run.history_end = run.history

\* two runs of the analyzer in succession on the same polls, at the same
\* time and over the same votes
Successive(i) ==
    /\ Undisturbed(runs[i])
    /\ Undisturbed(runs[i + 1])
    /\ ScopeOf(runs[i]) # {}
    /\ ScopeOf(runs[i + 1]) = ScopeOf(runs[i])
    /\ runs[i + 1].at = runs[i].at
    /\ runs[i + 1].history = runs[i].history

\* C16: running the analyzer twice in succession over the same poll, window
\* and votes gives the same flagged_count in both runs, creates no second
\* alert for a pattern that has one, and appends no fraud reason a second
\* time to a vote already flagged for the pattern.
C16_RerunIsIdempotent ==
    /\ \A i \in 1..(Len(runs) - 1) :
          Successive(i) =>
              /\ runs[i + 1].flagged_count = runs[i].flagged_count
              /\ PatternsCounted(runs[i + 1]) = PatternsCounted(runs[i])
              /\ AlertsCreated(runs[i + 1]) = 0
    /\ \A a, b \in alerts :
          (a.poll = b.poll /\ a.reasons = b.reasons) => a.id = b.id
    /\ \A v \in votes :
          \A i, j \in 1..Len(v.fraud_reasons) :
              v.fraud_reasons[i] = v.fraud_reasons[j] => i = j

\* the second of two successive runs has stored a second alert for a
\* pattern that the first had alerted, over the same flagged votes
C16_Witness ==
    /\ Len(runs) = 2
    /\ Successive(1)
    /\ runs[1].flagged_count >= 2
    /\ AlertsCreated(runs[1]) >= 1
    /\ runs[2].flagged_count = runs[1].flagged_count
    /\ AlertsCreated(runs[2]) = AlertsCreated(runs[1])
    /\ \E a, b \in alerts :
          /\ a.id # b.id
          /\ a.poll = b.poll
          /\ a.reasons = b.reasons
          /\ a.vote = b.vote
    /\ \E v \in votes : ~v.is_valid /\ Len(v.fraud_reasons) = 1

\* the error kind the state of the poll and the option call for, if any
ExpectedError(r) ==
    IF r.poll \notin DOMAIN polls THEN "PollNotFoundError"
    ELSE IF polls[r.poll].is_draft THEN "InvalidPollError"
    ELSE IF ~polls[r.poll].is_active THEN "PollClosedError"
    ELSE IF polls[r.poll].ends_at # NoTime /\ polls[r.poll].ends_at <= now
         THEN "PollClosedError"
    ELSE IF r.option \notin OptionsOf(r.poll) THEN "InvalidVoteError"
    ELSE ""

\* C17: a cast is rejected, with no vote row created and no counter changed,
\* when the poll does not exist (PollNotFoundError), is a draft
\* (InvalidPollError), is inactive or past its end time (PollClosedError), or
\* when the option does not belong to the poll (InvalidVoteError); the
\* response carries the kind as its error code, and an unexpected exception
\* is reported as the generic InternalServerError with status 500.
C17_InvalidCastsRejected ==
    [][\A w \in Workers :
          /\ (req[w].pc = "received" /\ ExpectedError(req[w]) # "") =>
                (req'[w].pc # "received" =>
                    /\ req'[w].pc = "rejected"
                    /\ req'[w].outcome = ExpectedError(req[w])
                    /\ req'[w].error_code = ExpectedError(req[w])
                    /\ req'[w].status =
                          IF ExpectedError(req[w]) = "PollNotFoundError"
                          THEN 404 ELSE 400
                    /\ req'[w].vote = NoVote
                    /\ votes' = votes
                    /\ pollTotal' = pollTotal
                    /\ optionCount' = optionCount)
          /\ (req[w].pc = "received" /\ ExpectedError(req[w]) = "") =>
                req'[w].pc \in {"received", "identity-resolved"}
          /\ (req'[w].fault /\ ~req[w].fault) =>
                /\ req'[w].pc = "rejected"
                /\ req'[w].error_code = "InternalServerError"
                /\ req'[w].status = 500
                /\ votes' = votes
                /\ pollTotal' = pollTotal
                /\ optionCount' = optionCount]_vars

\* two casts on an open poll were rejected, one for a poll that does not
\* exist and one for an option of another poll
C17_Witness ==
    /\ polls[1] = OpenPoll
    /\ votes = {}
    /\ \E w1, w2 \in Workers :
          /\ req[w1].outcome = "PollNotFoundError" /\ req[w1].status = 404
          /\ req[w2].outcome = "InvalidVoteError" /\ req[w2].status = 400
          /\ req[w2].option = ForeignOption

\* the vote named by a request, if it is stored
Named(vote_id) == {v \in votes : v.id = vote_id}

\* the vote is stored and is the requester's own
OwnVote(user, vote_id) == \E v \in Named(vote_id) : v.user = user

\* the poll allows retraction and is open
PollLets(poll_id) ==
    /\ polls[poll_id].allow_vote_retraction
    /\ polls[poll_id].is_active
    /\ polls[poll_id].ends_at = NoTime \/ now < polls[poll_id].ends_at

RowsKept ==
    /\ votes' = votes
    /\ pollTotal' = pollTotal
    /\ optionCount' = optionCount

\* the request goes on to the query of the poll with the vote it fetched
Fetched(w, user, vote_id) ==
    /\ req'[w].pc = "destroy-fetched"
    /\ req'[w].user = user
    /\ req'[w].vote = vote_id
    /\ \E v \in Named(vote_id) : req'[w].poll = v.poll /\ req'[w].option = v.option
    /\ lastOp' = lastOp
    /\ RowsKept

\* the request is let through to the delete
Passed(w) ==
    /\ req' = [req EXCEPT ![w].pc = "destroy-checked"]
    /\ lastOp' = lastOp
    /\ RowsKept

Refused(user, vote_id, statuses) ==
    /\ lastOp'.op = "destroy"
    /\ lastOp'.user = user
    /\ lastOp'.vote = vote_id
    /\ lastOp'.status \in statuses
    /\ \A w \in Workers : req'[w] \in {req[w], Idle}
    /\ RowsKept

\* the statements of a request that was let through: the vote goes, if it
\* is still stored, with the alerts that hang on it, each counter is lowered
\* by one, and the answer is 204 with the vote no longer stored
Retracted(w) ==
    /\ DestroyDelete(w) =>
          /\ votes' = votes \ Named(req[w].vote)
          /\ alerts' = {x \in alerts : x.vote # req[w].vote}
          /\ pollTotal' = pollTotal
          /\ optionCount' = optionCount
    /\ DestroyOptionCount(w) =>
          /\ optionCount' = [optionCount EXCEPT ![req[w].option] = @ - 1]
          /\ votes' = votes
          /\ pollTotal' = pollTotal
    /\ DestroyPollTotal(w) =>
          /\ pollTotal' = [pollTotal EXCEPT ![req[w].poll] = @ - 1]
          /\ votes' = votes
          /\ optionCount' = optionCount
          /\ lastOp'.op = "destroy"
          /\ lastOp'.status = 204
          /\ lastOp'.user = req[w].user
          /\ lastOp'.vote = req[w].vote
          /\ Named(req[w].vote) = {}

\* 204 is the answer of requests that were let through, and of no other
AnsweredAfterDelete ==
    (lastOp'.op = "destroy" /\ lastOp'.status = 204 /\ lastOp' # lastOp) =>
        \E w \in Workers : req[w].pc = "destroy-option-updated" /\ req'[w].pc = "idle"

RetractRequests ==
    (Users \cup {NoUser}) \X (1..(MaxHistory + 1)) \X NotAuthenticatedStatuses

\* C18 as claimed: a retraction succeeds (204, vote deleted) only when the
\* vote exists, the requester owns it and its poll allows retraction and is
\* open; in every other case the request is refused with 404 for a missing
\* vote and 403 otherwise, and the vote and both counters are unchanged.
C18_RefusedWith404Or403 ==
    [][/\ \A w \in Workers, r \in RetractRequests :
             DestroyGetVote(w, r[1], r[2], r[3]) =>
                 IF r[1] # NoUser /\ OwnVote(r[1], r[2]) THEN Fetched(w, r[1], r[2])
                 ELSE IF Named(r[2]) = {} THEN Refused(r[1], r[2], {404})
                 ELSE Refused(r[1], r[2], {403})
       /\ \A w \in Workers :
             DestroyGetPoll(w) =>
                 IF OwnVote(req[w].user, req[w].vote) /\ PollLets(req[w].poll)
                 THEN Passed(w)
                 ELSE IF Named(req[w].vote) = {}
                 THEN Refused(req[w].user, req[w].vote, {404})
                 ELSE Refused(req[w].user, req[w].vote, {403})
       /\ \A w \in Workers : Retracted(w)
       /\ AnsweredAfterDelete]_vars

\* C18 as amended: a request without authentication is refused with 401 or
\* 403 before the vote is looked up; a request of an authenticated user is
\* refused with 404 when the vote is not stored at the first query and with
\* 403 when it is not the user's own; the poll is then read by a second
\* query, and the request is let through exactly when the poll, as stored at
\* that moment, allows retraction and is open, and refused with 403
\* otherwise, whether or not the vote is still stored; every refusal leaves
\* the votes and both counters unchanged; a request let through deletes the
\* vote, if it is still stored, with its alerts, lowers each counter by one
\* and is answered 204.
C18_RetractOnlyOwnOpenAllowed ==
    [][/\ \A w \in Workers, r \in RetractRequests :
             DestroyGetVote(w, r[1], r[2], r[3]) =>
                 IF r[1] = NoUser THEN Refused(r[1], r[2], NotAuthenticatedStatuses)
                 ELSE IF Named(r[2]) = {} THEN Refused(r[1], r[2], {404})
                 ELSE IF ~OwnVote(r[1], r[2]) THEN Refused(r[1], r[2], {403})
                 ELSE Fetched(w, r[1], r[2])
       /\ \A w \in Workers :
             DestroyGetPoll(w) =>
                 IF PollLets(req[w].poll) THEN Passed(w)
                 ELSE /\ Refused(req[w].user, req[w].vote, {403})
                      /\ req' = [req EXCEPT ![w] = Idle]
       /\ \A w \in Workers : Retracted(w)
       /\ AnsweredAfterDelete]_vars

\* a vote that carried the alert of a pattern was retracted by its owner:
\* the alert went with it and the other vote of the pattern is stored
C18_Witness ==
    /\ lastOp.op = "destroy"
    /\ lastOp.status = 204
    /\ lastOp.user # NoUser
    /\ \A v \in votes : v.id # lastOp.vote
    /\ votes # {}
    /\ Len(runs) >= 1
    /\ runs[Len(runs)].result.success
    /\ runs[Len(runs)].created >= 1
    /\ alerts = {}

\* C19: the key derived from a triple of ids is a function of the triple
\* alone, two triples that differ have keys that differ (the digest being
\* injective on the colon-joined string), and every derived key passes
\* validate_idempotency_key.
C19_KeysDistinguishTriples ==
    lastOp.op = "generate_idempotency_key" =>
        /\ lastOp.first = lastOp.second => lastOp.keys[1] = lastOp.keys[2]
        /\ lastOp.first # lastOp.second => lastOp.keys[1] # lastOp.keys[2]
        /\ lastOp.valid = <<TRUE, TRUE>>

\* two triples whose ids have the same digits in the same order, split
\* differently, have been given keys
C19_Witness ==
    /\ lastOp.op = "generate_idempotency_key"
    /\ lastOp.first # lastOp.second
    /\ Str(lastOp.first[1]) \o Str(lastOp.first[2]) \o Str(lastOp.first[3])
         = Str(lastOp.second[1]) \o Str(lastOp.second[2]) \o Str(lastOp.second[3])
    /\ lastOp.keys[1] # lastOp.keys[2]
    /\ lastOp.valid = <<TRUE, TRUE>>

\* the stages a cast may be in after a step that found it in the given one
StagesAfter(pc) ==
    CASE pc = "idle" -> {"received", "rejected"}
      [] pc = "received" -> {"identity-resolved", "rejected"}
      [] pc = "identity-resolved" -> {"duplicate-checked", "replayed", "rejected"}
      [] pc = "duplicate-checked" -> {"block-checked", "rejected"}
      [] pc = "block-checked" -> {"suspicion-evaluated", "rejected"}
      [] pc = "suspicion-evaluated" -> {"accepted", "replayed", "rejected"}
      [] OTHER -> {"idle"}

\* a vote is stored or cached under the key of the cast
FoundByKey(r) ==
    \/ check_idempotency(r.key) # NoVote
    \/ check_duplicate_vote_by_idempotency(r.key, TRUE) # NoVote

StageOrder(w) ==
    LET before == req[w]
        after == req'[w]
    IN before.pc # after.pc =>
        /\ after.pc \in StagesAfter(before.pc)
        /\ after.pc \in Terminal =>
              after.at = IF before.pc = "idle" THEN "received" ELSE before.pc
        /\ after.pc = "accepted" =>
              /\ before.pc = "suspicion-evaluated"
              /\ ~is_blocked(before.fingerprint)
              /\ ~before.verdict.block_vote
        /\ after.pc = "replayed" =>
              /\ after.vote \in {v.id : v \in votes}
              /\ ~after.is_new
              /\ votes' = votes
        /\ before.pc = "identity-resolved" /\ FoundByKey(before) =>
              \/ after.pc = "replayed"
              \/ after.outcome = "InternalServerError" /\ after.fault

\* C20: a cast moves through received, identity-resolved, duplicate-checked,
\* block-checked and suspicion-evaluated in this order, one stage at a time,
\* and may end rejected at any of them; it is accepted only from
\* suspicion-evaluated, that is after the registry and the engine have let
\* it pass; a cast with a vote stored or cached under its key ends in the
\* duplicate check as a replay of a stored vote, unless the lookup itself
\* fails; and every cast that was received ends accepted, replayed or
\* rejected.
C20_StagesInOrderAndEnd ==
    /\ [][\A w \in Workers : StageOrder(w)]_vars
    /\ \A w \in Workers :
          (req[w].pc = "received") ~> (req[w].pc \in Terminal)

\* one cast was accepted after the engine's verdict and another ended as a
\* replay in the duplicate check
C20_Witness ==
    \E w \in Workers, x \in Workers :
        /\ req[w].pc = "accepted"
        /\ req[w].at = "suspicion-evaluated"
        /\ req[x].pc = "replayed"
        /\ req[x].at = "identity-resolved"

\* the entry that the calls of record() noted for a key add up to
EntryOf(noted) ==
    [present |-> TRUE, count |-> noted.count, users |-> noted.users,
     ips |-> noted.ips, user_count |-> Cardinality(noted.users),
     ip_count |-> Cardinality(noted.ips)]

\* C21: after any sequence of record() on a cache key with no expiry in
\* between, the count of the entry is the number of calls, users and ips
\* are the sets of the distinct users and addresses recorded, user_count and
\* ip_count are their sizes; a call leaves the entries of the other keys as
\* they were, and the key is made of the fingerprint and the poll.
C21_EntryCountsCalls ==
    /\ [](\A k \in CacheKeys :
            fpCache[k] = IF recorded[k].count = 0 THEN NoEntry
                         ELSE EntryOf(recorded[k]))
    /\ [][\A k \in CacheKeys, f \in Fingerprints, p \in Polls :
            /\ recorded'[k].count = recorded[k].count + 1
            /\ k # get_fingerprint_cache_key(f, p)
            => fpCache'[get_fingerprint_cache_key(f, p)]
                 = fpCache[get_fingerprint_cache_key(f, p)]]_vars

\* three calls on one key by two users from two addresses, one of them
\* repeated, and nothing recorded under the other key
C21_Witness ==
    \E k \in CacheKeys, other \in CacheKeys :
        /\ fpCache[k].count = 3
        /\ fpCache[k].user_count = 2
        /\ fpCache[k].ip_count = 2
        /\ other # k
        /\ fpCache[other] = NoEntry

\* the stored votes of the poll within the last 24 hours that the user cast
\* or, for an attempt without a user, that came from the address
SameIdentityInWindow(u, a, p) ==
    {v \in votes : /\ v.poll = p
                   /\ now - v.created_at <= 24 * UnitsPerHour
                   /\ IF u # NoUser THEN v.user = u ELSE v.ip_address = a}

\* the fingerprint was used, and every use of it is older than the window
OnlyOldUse(f) ==
    /\ \E v \in votes : v.fingerprint = f
    /\ \A v \in votes : v.fingerprint = f => now - v.created_at > 24 * UnitsPerHour

\* the step changes what the engine reads: the votes, the clock or a block
StoredStateChanges == votes' # votes \/ now' # now \/ blocks' # blocks

\* C22 as claimed: the verdict of evaluate and the result of
\* detect_fingerprint_changes depend on the stored votes only through the
\* votes of the fingerprint on the poll within the window, and a fingerprint
\* whose every earlier use is older than the window is evaluated as not
\* suspicious.
C22_OnlyWindowVotesOfFingerprint ==
    /\ [][StoredStateChanges =>
          \A f \in Fingerprints, p \in Polls, u \in EvalUsers, a \in IpAddresses :
            (InWindow(f, p)' = InWindow(f, p) /\ is_blocked(f)' = is_blocked(f))
            => /\ check_fingerprint_suspicious(f, p, u, a, TRUE)'
                    = check_fingerprint_suspicious(f, p, u, a, TRUE)
               /\ detect_suspicious_fingerprint_changes(f, u, a, p)'
                    = detect_suspicious_fingerprint_changes(f, u, a, p)]_vars
    /\ [](\A f \in Fingerprints, p \in Polls, u \in EvalUsers, a \in EvalIps :
            OnlyOldUse(f) => ~check_fingerprint_suspicious(f, p, u, a, TRUE).suspicious)

\* C22 as amended: the verdict of evaluate for a fingerprint depends on the
\* stored votes only through the votes of that fingerprint on the poll
\* within the window, and on the block of the fingerprint; the result of
\* detect_fingerprint_changes depends on them only through the votes on the
\* poll within the window of the same user (of the same address, for an
\* attempt without a user), whatever their fingerprints; a fingerprint with
\* no active block whose every earlier use is older than the window is
\* evaluated as not suspicious.
C22_OnlyWindowVotesCount ==
    /\ [][StoredStateChanges =>
          \A f \in Fingerprints, p \in Polls, u \in EvalUsers, a \in IpAddresses :
            /\ (InWindow(f, p)' = InWindow(f, p) /\ is_blocked(f)' = is_blocked(f))
               => check_fingerprint_suspicious(f, p, u, a, TRUE)'
                    = check_fingerprint_suspicious(f, p, u, a, TRUE)
            /\ \A g \in Fingerprints \cup {NewFingerprint} :
                  SameIdentityInWindow(u, a, p)' = SameIdentityInWindow(u, a, p)
                  => detect_suspicious_fingerprint_changes(g, u, a, p)'
                       = detect_suspicious_fingerprint_changes(g, u, a, p)]_vars
    /\ [](\A f \in Fingerprints, p \in Polls, u \in EvalUsers, a \in EvalIps :
            (OnlyOldUse(f) /\ ~is_blocked(f))
            => ~check_fingerprint_suspicious(f, p, u, a, TRUE).suspicious)

\* a fingerprint that two users used more than a window ago, and that was
\* used on the other poll as well, was evaluated for a third attempt and
\* found not suspicious
C22_Witness ==
    /\ lastOp.op = "evaluate"
    /\ ~lastOp.verdict.suspicious
    /\ ~is_blocked(lastOp.fingerprint)
    /\ OnlyOldUse(lastOp.fingerprint)
    /\ \E v, w \in votes :
          /\ v.fingerprint = lastOp.fingerprint
          /\ w.fingerprint = lastOp.fingerprint
          /\ v.poll = 1
          /\ w.poll # v.poll \/ w.user # v.user

\* block() was applied to the fingerprint in this step, by an administrator
\* or by an evaluation that returned a blocking verdict of its own
BlockApplied(f) ==
    /\ lastOp' # lastOp \/ blocks' # blocks
    /\ lastOp'.fingerprint = f
    /\ \/ lastOp'.op = "block"
       \/ /\ lastOp'.op = "evaluate"
          /\ lastOp'.verdict.block_vote
          /\ ~InSeq("permanently blocked", lastOp'.verdict.reasons)

\* C23: the registry holds one row per fingerprint at most and no row is
\* ever deleted; block() on a fingerprint whose row is inactive makes that
\* row active again, with the reason and the author of the new block and
\* the stamps of the unblock cleared; and is_blocked holds for a fingerprint
\* exactly when its row is active, which is when an evaluation of it is
\* answered as permanently blocked.
C23_OneRowReactivated ==
    /\ [](/\ DOMAIN blocks = Fingerprints
          /\ \A f \in Fingerprints :
                /\ is_blocked(f) <=> (blocks[f].present /\ blocks[f].is_active)
                /\ is_blocked(f)
                   <=> InSeq("permanently blocked",
                             check_fingerprint_suspicious(f, 1, NoUser, NoIp, TRUE).reasons))
    /\ [][\A f \in Fingerprints :
            /\ blocks[f].present => blocks'[f].present
            /\ (BlockApplied(f) /\ ~is_blocked(f)) =>
                  /\ is_blocked(f)'
                  /\ blocks'[f].unblocked_at = NoTime
                  /\ blocks'[f].unblocked_by = NoUser
                  /\ blocks'[f].blocked_by \in IF lastOp'.op = "block"
                                                THEN Admins ELSE {NoUser}
                  /\ \A g \in Fingerprints \ {f} : blocks'[g] = blocks[g]]_vars

\* a fingerprint that an administrator had unblocked is blocked again, by
\* the engine, in the row it had
C23_Witness ==
    \E f \in Fingerprints :
        /\ lastOp.op = "evaluate"
        /\ lastOp.fingerprint = f
        /\ lastOp.verdict.block_vote
        /\ ~InSeq("permanently blocked", lastOp.verdict.reasons)
        /\ adminOps = MaxAdminOps
        /\ \A g \in Fingerprints \ {f} : ~blocks[g].present
        /\ is_blocked(f)
        /\ blocks[f].blocked_by = NoUser
        /\ blocks[f].unblocked_at = NoTime

\* work is handed over in this step
Dispatching == ~(jobs' \subseteq jobs)

\* work that was handed over is taken up in this step
RunningJob == jobs' # jobs /\ jobs' \subseteq jobs

\* C24: the broadcast of the results and the analysis of the fingerprint
\* are handed over only by the step that commits an accepted cast, for the
\* vote that step stored, and never by a cast that ends rejected, replayed
\* or rolled back; every piece of work waiting refers to a stored vote;
\* running a piece of work, whatever it comes to, changes neither the
\* requests in flight nor the votes, the counters, the caches and the audit
\* rows;
\* and the response of a cast that has ended can always be sent, whatever
\* work is waiting or running.
C24_DispatchAfterCommit ==
    /\ [](/\ \A job \in jobs :
                \E v \in votes : v.id = job.vote /\ v.poll = job.poll
          /\ \A w \in Workers : req[w].pc \in Terminal => ENABLED Respond(w))
    /\ [][/\ Dispatching =>
               \E w \in Workers :
                  /\ req[w].pc = "suspicion-evaluated"
                  /\ req'[w].pc = "accepted"
                  /\ req'[w].is_new
                  /\ \E v \in votes' \ votes : v.id = req'[w].vote
                  /\ \A job \in jobs' \ jobs : job.vote = req'[w].vote
          /\ \A w \in Workers :
                (req[w].pc \notin Terminal /\ req'[w].pc \in {"rejected", "replayed"})
                => jobs' = jobs
          /\ RunningJob =>
                /\ req' = req
                /\ votes' = votes
                /\ pollTotal' = pollTotal
                /\ optionCount' = optionCount
                /\ attempts' = attempts
                /\ idemCache' = idemCache
                /\ fpCache' = fpCache]_vars

\* the broadcast for an accepted cast failed after the response was sent,
\* the analysis of its fingerprint is still waiting, and the vote and its
\* audit row are as the cast left them
C24_Witness ==
    /\ lastOp.op = "broadcast"
    /\ lastOp.outcome = "error logged"
    /\ \A w \in Workers : req[w].pc = "idle"
    /\ \E job \in jobs :
          /\ job.kind = "analyze_fingerprint_patterns"
          /\ \E v \in votes : v.id = job.vote
          /\ \A other \in jobs : other.vote = job.vote
          /\ \E i \in 1..Len(attempts) : attempts[i].success
    /\ started = 1

\* an analysis run has just been logged
AnalysisStep == Len(runs') = Len(runs) + 1

\* the pattern has an alert, when it is above the threshold, and each of its
\* votes is flagged for it
Followed(pattern, alertRows, voteRows) ==
    /\ pattern.risk_score >= ALERT_THRESHOLD => alerted(alertRows, pattern.poll, pattern)
    /\ \A id \in pattern.votes :
          \E v \in voteRows :
              /\ v.id = id
              /\ ~v.is_valid
              /\ InReasons(pattern.kind, v.fraud_reasons)
              /\ v.risk_score >= pattern.risk_score

\* the rows are those of before, up to the three fields a flagging may set
OnlyFlagFields(before, after) ==
    /\ Cardinality(after) = Cardinality(before)
    /\ \A v \in before :
          \E x \in after :
              x = [v EXCEPT !.is_valid = x.is_valid,
                            !.fraud_reasons = x.fraud_reasons,
                            !.risk_score = x.risk_score]

\* a run is at its call of flag_suspicious_votes
FlaggingStep == task.pc \in {"alerted", "poll-alerted"} /\ task' # task

\* C26: a run without a poll id covers every active poll, and in both modes
\* (one poll, all active polls) every pattern detected for a poll by a run
\* that made its calls is followed by alert generation and by the flagging
\* of its votes, which touches only is_valid, fraud_reasons and risk_score
\* of a vote.
C26_PatternsAlertedAndFlagged ==
    [][/\ AnalysisStep =>
            LET run == runs'[Len(runs')]
                active == {p \in DOMAIN polls : polls[p].is_active}
            IN run.result.success =>
                 /\ (~Periodic(run) /\ run.poll = NoPoll) =>
                       run.detected =
                          UNION {patterns_of_poll(p, DEFAULT_TIME_WINDOW_HOURS, now) :
                                    p \in active}
                 /\ \A pattern \in run.detected :
                       pattern.poll \notin run.failed
                           => Followed(pattern, alerts', votes')
       /\ FlaggingStep => OnlyFlagFields(votes, votes')]_vars

\* the same for the runs that name a poll and for the periodic run
C26_NamedAndPeriodicRunsFollowUp ==
    [][/\ AnalysisStep =>
            LET run == runs'[Len(runs')]
            IN (run.result.success /\ (run.poll # NoPoll \/ Periodic(run))) =>
                  \A pattern \in run.detected :
                      pattern.poll \notin run.failed
                          => Followed(pattern, alerts', votes')
       /\ FlaggingStep => OnlyFlagFields(votes, votes')]_vars

\* a run of the task without a poll id has detected a pattern above the
\* threshold in an active poll and left no alert and every vote valid
C26_Witness ==
    /\ Len(runs) >= 1
    /\ LET run == runs[Len(runs)]
       IN /\ run.task = "analyze_vote_patterns_task"
          /\ run.poll = NoPoll
          /\ run.result.success
          /\ run.result.patterns_detected >= 1
          /\ run.result.alerts_generated = 0
          /\ run.created = 0
          /\ run.flagged_count = 0
          /\ \E pattern \in run.detected : pattern.risk_score >= ALERT_THRESHOLD
    /\ alerts = {}
    /\ \A v \in votes : v.is_valid

(***************************************************************************)
(* Retractions step by step, next to casts: VoteViewSet.destroy runs its   *)
(* lookup, its delete and its two counter updates as separate statements,  *)
(* outside of any transaction.                                             *)
(***************************************************************************)
\* the votes stored at the start: none, or votes the users cast on option 1,
\* each from a device and an address of their own, their cache entries gone
StoredByUsers ==
    {{Vote(i, i, 1, 1, generate_idempotency_key(i, 1, 1), i, i, 0, 0, <<>>) :
         i \in 1..n} : n \in 0..NumUsers}

InitRace ==
    /\ \E rows \in StoredByUsers : InitWith(rows, HistoryEnd)
    /\ polls = [p \in Polls |-> RetractablePoll]

NextRace ==
    \/ \E w \in Workers, user \in Users, c \in Options :
          Receive(w, user, 1, c, NoKey, user, user, TRUE)
    \/ \E w \in Workers : ResolveIdentity(w)
    \/ \E w \in Workers : DuplicateCheck(w, TRUE)
    \/ \E w \in Workers : BlockCheck(w, TRUE)
    \/ \E w \in Workers : SuspicionEvaluate(w, TRUE, TRUE)
    \/ \E w \in Workers : Commit(w, TRUE)
    \/ \E w \in Workers : Respond(w)
    \/ \E w \in Workers, user \in Users, vote_id \in 1..(NumUsers + 1) :
          DestroyGetVote(w, user, vote_id, 401)
    \/ \E w \in Workers : DestroyGetPoll(w)
    \/ \E w \in Workers : DestroyDelete(w)
    \/ \E w \in Workers : DestroyOptionCount(w)
    \/ \E w \in Workers : DestroyPollTotal(w)

SpecRace == InitRace /\ [][NextRace]_vars

Quiescent == \A w \in Workers : req[w].pc = "idle"

CountersMatchVotes ==
    /\ \A p \in Polls : pollTotal[p] = Cardinality({v \in votes : v.poll = p})
    /\ \A o \in Options : optionCount[o] = CountOf(votes, o)

\* C27: after any interleaving of accepted casts and retractions on a poll,
\* two retractions of one vote at once and a retraction next to a cast
\* included, cached_total_votes is the number of stored votes of the poll
\* and each cached_vote_count the number of stored votes of the option, and
\* no counter is ever negative.
C27_CountersMatchAfterRaces ==
    /\ Quiescent => CountersMatchVotes
    /\ \A p \in Polls : pollTotal[p] >= 0
    /\ \A o \in Options : optionCount[o] >= 0

\* two retractions and no cast have run to their end, the second answered
\* 204, and the counter of the poll is not the number of its stored votes
C27_Witness ==
    /\ Quiescent
    /\ started = 0
    /\ attempts = <<>>
    /\ lastOp.op = "destroy"
    /\ lastOp.status = 204
    /\ \E p \in Polls : pollTotal[p] # Cardinality({v \in votes : v.poll = p})

(***************************************************************************)
(* Casts and retractions one after the other, with the caches expiring.    *)
(***************************************************************************)
NextRecast ==
    \/ \E w \in Workers, user \in Users, c \in Options :
          Quiescent /\ Receive(w, user, 1, c, NoKey, user, user, TRUE)
    \/ \E w \in Workers : ResolveIdentity(w)
    \/ \E w \in Workers : DuplicateCheck(w, TRUE)
    \/ \E w \in Workers : BlockCheck(w, TRUE)
    \/ \E w \in Workers : SuspicionEvaluate(w, TRUE, TRUE)
    \/ \E w \in Workers : Commit(w, TRUE)
    \/ \E w \in Workers : Respond(w)
    \/ \E w \in Workers, user \in Users, vote_id \in 1..(NumUsers + MaxCasts) :
          Quiescent /\ DestroyGetVote(w, user, vote_id, 401)
    \/ \E w \in Workers : DestroyGetPoll(w)
    \/ \E w \in Workers : DestroyDelete(w)
    \/ \E w \in Workers : DestroyOptionCount(w)
    \/ \E w \in Workers : DestroyPollTotal(w)
    \/ CacheExpire

SpecRecast == InitRace /\ [][NextRecast]_vars

\* the cast of worker w ends in this step
CastEnds(w) ==
    /\ req[w].pc \notin Terminal \cup {"idle"}
    /\ req'[w].pc \in Terminal

\* the last retraction was the user's own, and the user had no vote on the
\* poll when the cast came in
AfterOwnRetraction(r) ==
    /\ lastOp.op = "destroy"
    /\ lastOp.status = 204
    /\ lastOp.user = r.user
    /\ r.user_row = NoVote

AnsweredAsNew(r, rows) ==
    /\ r.pc = "accepted"
    /\ r.is_new
    /\ \E v \in rows : v.id = r.vote /\ v.user = r.user /\ v.poll = r.poll
                       /\ v.option = r.option

\* C28: after the vote of a user on a poll has been retracted, a new cast of
\* the user on the poll is a new vote: it returns is_new = true with a vote
\* that is stored, and is answered neither from the idempotency cache with
\* the id of the deleted vote nor with DuplicateVoteError.
C28_RecastAfterRetractionIsNew ==
    [][\A w \in Workers :
          (CastEnds(w) /\ AfterOwnRetraction(req[w])) =>
              AnsweredAsNew(req'[w], votes')]_vars

\* the same for the casts whose key the idempotency cache no longer holds
C28_RecastAfterExpiryIsNew ==
    [][\A w \in Workers :
          (/\ CastEnds(w)
           /\ AfterOwnRetraction(req[w])
           /\ req[w].pc = "identity-resolved" =>
                 req[w].key \notin DOMAIN idemCache) =>
              AnsweredAsNew(req'[w], votes')]_vars

\* the cast after the retraction was answered as a replay of the vote the
\* retraction deleted
C28_Witness ==
    \E w \in Workers :
        /\ req[w].pc = "replayed"
        /\ ~req[w].is_new
        /\ lastOp.op = "destroy"
        /\ lastOp.status = 204
        /\ lastOp.user = req[w].user
        /\ lastOp.vote = req[w].vote
        /\ \A v \in votes : v.id # req[w].vote
        /\ \A v \in votes : v.user # req[w].user

(***************************************************************************)
(* The three lookups of core/utils/idempotency.py on keys given as         *)
(* strings.  A character is a number: a hexadecimal digit is its value,    *)
(* the others follow.                                                      *)
(***************************************************************************)
HexDigits == 0..15
LetterX == 16
Underscore == 17
Space == 18
Minus == 19
LetterG == 20

Repeat(c, n) == [i \in 1..n |-> c]

RECURSIVE lstrip(_)
lstrip(s) == IF s # <<>> /\ Head(s) = Space THEN lstrip(Tail(s)) ELSE s

RECURSIVE rstrip(_)
rstrip(s) ==
    IF s # <<>> /\ s[Len(s)] = Space THEN rstrip(SubSeq(s, 1, Len(s) - 1)) ELSE s

\* int(s, 16) returns a number: blanks around the literal, a sign, the
\* prefix 0x and single underscores between the digits are accepted
int_base16_parses(s) ==
    LET stripped == rstrip(lstrip(s))
        unsigned == IF stripped # <<>> /\ Head(stripped) = Minus
                    THEN Tail(stripped) ELSE stripped
        prefixed == Len(unsigned) >= 2 /\ unsigned[1] = 0 /\ unsigned[2] = LetterX
        rest == IF prefixed THEN SubSeq(unsigned, 3, Len(unsigned)) ELSE unsigned
        digits == IF prefixed /\ rest # <<>> /\ Head(rest) = Underscore
                  THEN Tail(rest) ELSE rest
    IN /\ digits # <<>>
       /\ \A i \in 1..Len(digits) : digits[i] \in HexDigits \cup {Underscore}
       /\ digits[1] # Underscore
       /\ digits[Len(digits)] # Underscore
       /\ \A i \in 1..(Len(digits) - 1) :
             ~(digits[i] = Underscore /\ digits[i + 1] = Underscore)

\* the key as the lookups see it: its length and whether int(key, 16) succeeds
KeyOfString(s) == [len |-> Len(s), hex |-> int_base16_parses(s), text |-> s]

\* the key is 64 hexadecimal characters
IsHex64(s) == Len(s) = DIGEST_LENGTH /\ \A i \in 1..Len(s) : s[i] \in HexDigits

Hex64 == Repeat(10, DIGEST_LENGTH)
Prefixed64 == <<0, LetterX>> \o Repeat(10, DIGEST_LENGTH - 2)

\* keys of 64 hexadecimal characters, keys of 64 characters with a prefix, a
\* sign, a blank or a letter that is no digit, keys of 63 and 65 characters
\* and the empty key
KeyStrings ==
    {Hex64, Prefixed64,
     <<Minus>> \o Repeat(10, DIGEST_LENGTH - 1),
     Repeat(10, DIGEST_LENGTH - 1) \o <<Space>>,
     Repeat(LetterG, DIGEST_LENGTH),
     Repeat(10, DIGEST_LENGTH - 1),
     Repeat(10, DIGEST_LENGTH + 1),
     <<>>}

\* the keys the column of the vote table takes
StorableStrings == {s \in KeyStrings : Len(s) \in 1..DIGEST_LENGTH}

\* anonymous votes stored under the keys of a sequence
RowsWithKeys(keys) ==
    {Vote(i, NoUser, 1, 1, KeyOfString(keys[i]), 1, 1, 0, 0, <<>>) :
        i \in 1..Len(keys)}

InitLookup ==
    /\ \E n \in 0..MaxHistory :
          \E keys \in [1..n -> StorableStrings] :
              /\ \A i, j \in 1..n : keys[i] = keys[j] => i = j
              /\ InitWith(RowsWithKeys(keys), 0)
    /\ polls = [p \in Polls |-> OpenPoll]

LookupOp(name, s, queryOk, result) ==
    [op |-> name, fingerprint |-> NoFingerprint, verdict |-> NotSuspicious,
     key |-> s, queryOk |-> queryOk, result |-> result]

\* check_duplicate_vote_by_idempotency, the query succeeding or failing
LookupByKey(s, queryOk) ==
    /\ lastOp' = LookupOp("check_duplicate_vote_by_idempotency", s, queryOk,
                          check_duplicate_vote_by_idempotency(KeyOfString(s), queryOk))
    /\ UNCHANGED <<unblocking, votes, nextVoteId, blocks, fpCache, idemCache, pollTotal,
                   optionCount, req, now, started, adminOps>>
    /\ UNCHANGED <<runs, polls, attempts, alerts, task, recorded, jobs>>

\* check_idempotency
LookupInCache(s) ==
    /\ lastOp' = LookupOp("check_idempotency", s, TRUE,
                          check_idempotency(KeyOfString(s)))
    /\ UNCHANGED <<unblocking, votes, nextVoteId, blocks, fpCache, idemCache, pollTotal,
                   optionCount, req, now, started, adminOps>>
    /\ UNCHANGED <<runs, polls, attempts, alerts, task, recorded, jobs>>

\* store_idempotency_result
StoreResult(s, result) ==
    /\ idemCache' = store_idempotency_result(KeyOfString(s), result)
    /\ lastOp' = LookupOp("store_idempotency_result", s, TRUE, result)
    /\ UNCHANGED <<unblocking, votes, nextVoteId, blocks, fpCache, pollTotal,
                   optionCount, req, now, started, adminOps>>
    /\ UNCHANGED <<runs, polls, attempts, alerts, task, recorded, jobs>>

NextLookup ==
    \/ \E s \in KeyStrings, queryOk \in BOOLEAN : LookupByKey(s, queryOk)
    \/ \E s \in KeyStrings : LookupInCache(s)
    \/ \E s \in KeyStrings, id \in 1..MaxHistory : StoreResult(s, id)

SpecLookup == InitLookup /\ [][NextLookup]_vars

\* the answers of the three lookups, for a notion of a well-formed key
FailOpen(WellFormed(_)) ==
    /\ lastOp.op = "check_duplicate_vote_by_idempotency" =>
          LET found == {v \in votes : v.idempotency_key = KeyOfString(lastOp.key)}
          IN IF WellFormed(lastOp.key) /\ lastOp.queryOk /\ found # {}
             THEN lastOp.result \in {v.id : v \in found}
             ELSE lastOp.result = NoVote
    /\ (lastOp.op = "check_idempotency" /\ ~WellFormed(lastOp.key)) =>
          lastOp.result = NoVote

WritesNothing(WellFormed(_)) ==
    (lastOp'.op = "store_idempotency_result" /\ ~WellFormed(lastOp'.key)) =>
        idemCache' = idemCache

PassesValidate(s) == validate_idempotency_key(KeyOfString(s))

\* C29: check_duplicate_vote_by_idempotency returns a vote id only when the
\* key is a well-formed key of 64 hexadecimal characters and a vote with the
\* key is stored at the time of the query, and returns (False, None) in
\* every other case, a malformed key and a failed query included;
\* check_idempotency on a malformed key returns (False, None) and
\* store_idempotency_result on a malformed key writes nothing.
C29_LookupsFailOpen ==
    /\ [](FailOpen(IsHex64))
    /\ [][WritesNothing(IsHex64)]_vars

\* the same, a well-formed key being one that validate_idempotency_key
\* accepts
C29_LookupsFailOpenOnValidate ==
    /\ [](FailOpen(PassesValidate))
    /\ [][WritesNothing(PassesValidate)]_vars

\* a vote is stored under a key of 64 characters that begins with 0x, and
\* the lookup of the key has returned the vote
C29_Witness ==
    /\ lastOp.op = "check_duplicate_vote_by_idempotency"
    /\ lastOp.key = Prefixed64
    /\ ~IsHex64(lastOp.key)
    /\ lastOp.result # NoVote
    /\ \E v \in votes : v.id = lastOp.result /\ v.idempotency_key.text = Prefixed64

(***************************************************************************)
(* periodic_pattern_analysis over several polls, with failures while a     *)
(* poll is analysed, alerted or flagged.                                   *)
(***************************************************************************)
NumPolls == 2
RunPolls == 1..NumPolls

\* the votes of a poll at the start: none, two anonymous votes from one
\* address, or the votes of two users on one fingerprint
Clusters == {"none", "address", "fingerprint"}

ClusterRows(poll_id, cluster) ==
    LET first == 2 * poll_id - 1
    IN IF cluster = "none" THEN {}
       ELSE IF cluster = "address"
       THEN {Vote(first + i, NoUser, poll_id, ForeignOption,
                  RowKey(first + i, NoUser, poll_id, ForeignOption),
                  i + 1, 1, 0, 0, <<>>) : i \in 0..1}
       ELSE {Vote(first + i, i + 1, poll_id, ForeignOption,
                  RowKey(first + i, i + 1, poll_id, ForeignOption),
                  1, i + 1, 0, 0, <<>>) : i \in 0..1}

InitPeriodic ==
    /\ \E cluster \in [RunPolls -> Clusters] :
          InitWith(UNION {ClusterRows(p, cluster[p]) : p \in RunPolls}, HistoryEnd)
    /\ \E active \in [RunPolls -> BOOLEAN] :
          polls = [p \in RunPolls |->
                      IF active[p] THEN OpenPoll ELSE InactivePoll]

\* runs of the periodic task, one at a time, each query and each call a
\* step of its own, while polls are closed and time passes
NextPeriodic ==
    \/ \E ok \in BOOLEAN : PeriodicPatternAnalysis(ok)
    \/ \E ok \in BOOLEAN : PeriodicList(ok)
    \/ \E poll_id \in RunPolls, ok \in BOOLEAN : PollAnalyze(poll_id, ok)
    \/ \E ok \in BOOLEAN : PollAlerts(ok)
    \/ \E ok \in BOOLEAN : PollFlags(ok)
    \/ PeriodicReturn
    \/ \E poll_id \in RunPolls : ClosePoll(poll_id)
    \/ Tick

SpecPeriodic == InitPeriodic /\ [][NextPeriodic]_vars

\* the periodic run returns from its loop
PeriodicStep == task.pc = "looping" /\ Len(runs') = Len(runs) + 1

\* the step of a run that is open to it in the state
PeriodicProgress ==
    \/ \E ok \in BOOLEAN : PeriodicList(ok)
    \/ \E poll_id \in RunPolls, ok \in BOOLEAN : PollAnalyze(poll_id, ok)
    \/ \E ok \in BOOLEAN : PollAlerts(ok)
    \/ \E ok \in BOOLEAN : PollFlags(ok)
    \/ PeriodicReturn

\* the loop takes a poll off its list: visited, and failed or completed
PollLeavesLoop == task.pc # "idle" /\ task' # task /\ task'.pc = "looping"
                  /\ task.pc # "counted"

\* C30: a periodic run ends whatever fails in it and visits every active
\* poll once; a failure while a poll is analysed, alerted or flagged is
\* logged and the poll skipped, the other polls are analysed all the same,
\* and the run reports success with polls_analyzed the number of active
\* polls, those it visited, and totals over the polls that completed only.
C30_RunSurvivesFailingPolls ==
    /\ [](task.pc # "idle" => ENABLED PeriodicProgress)
    /\ [][/\ PollLeavesLoop =>
               \E poll_id \in task.todo :
                  /\ task'.todo = task.todo \ {poll_id}
                  /\ task'.visited = Append(task.visited, poll_id)
                  /\ poll_id \in task'.failed =>
                        /\ task'.total_patterns = task.total_patterns
                        /\ task'.total_alerts = task.total_alerts
                        /\ task'.highest_risk = task.highest_risk
                        /\ votes' = votes
                  /\ poll_id \notin task'.failed =>
                        /\ task'.failed = task.failed
                        /\ task'.total_patterns =
                              task.total_patterns + Cardinality(task.found)
                        /\ task'.total_alerts = task.total_alerts + task.created
                        /\ \A pattern \in task.found :
                              Followed(pattern, alerts', votes')
          /\ PeriodicStep =>
               LET run == runs'[Len(runs')]
                   visited == {run.visited[i] : i \in 1..Len(run.visited)}
                   completed == visited \ run.failed
               IN /\ run.result.success
                  /\ Cardinality(visited) = Len(run.visited)
                  /\ run.result.polls_analyzed = Len(run.visited)
                  /\ run.failed \subseteq visited
                  /\ run.result.total_patterns =
                        Cardinality({x \in run.detected : x.poll \in completed})
                  /\ run.result.highest_risk_score =
                        SetMax({0} \cup {x.risk_score :
                                   x \in {y \in run.detected : y.poll \in completed}})
         ]_vars

\* the same with the polls counted when the run starts and the polls visited
\* those listed when the loop starts
C30_CountedThenListed ==
    /\ [](task.pc # "idle" => ENABLED PeriodicProgress)
    /\ [][/\ (task.pc = "idle" /\ task'.pc = "counted") =>
               task'.poll_count =
                   Cardinality({p \in DOMAIN polls : polls[p].is_active})
          /\ (task.pc = "counted" /\ task'.pc = "looping") =>
               /\ task'.todo = {p \in DOMAIN polls : polls[p].is_active}
               /\ task'.visited = <<>>
          /\ PeriodicStep =>
               LET run == runs'[Len(runs')]
                   visited == {run.visited[i] : i \in 1..Len(run.visited)}
                   completed == visited \ run.failed
               IN /\ run.result.success
                  /\ task.todo = {}
                  /\ Cardinality(visited) = Len(run.visited)
                  /\ run.result.polls_analyzed = task.poll_count
                  /\ run.failed \subseteq visited
                  /\ run.result.total_patterns =
                        Cardinality({x \in run.detected : x.poll \in completed})
         ]_vars

\* a run counted two active polls; the second was closed before the loop
\* listed the polls: the run visited the first poll only and reports two
\* polls analysed
C30_Witness ==
    /\ Len(runs) >= 1
    /\ LET run == runs[Len(runs)]
       IN /\ Periodic(run)
          /\ run.result.success
          /\ run.result.polls_analyzed = 2
          /\ run.visited = <<1>>
          /\ run.failed = {}
    /\ polls[1].is_active
    /\ ~polls[2].is_active
    /\ lastOp.op = "close_poll"

====
